---- MODULE Spec2Model ----
(***************************************************************************)
(* A model of the go-innodb page and record decoder: the FIL envelope,     *)
(* the INDEX page parser, the record walker, the compact record parser     *)
(* and the column parsers.                                                 *)
(*                                                                         *)
(* A page buffer is a record [len, bytes]: len is len(buffer), bytes maps  *)
(* the positions that hold a non-zero byte to that byte; every other       *)
(* position inside [0, len) holds 0.  The code's reads go through ByteAt.  *)
(*                                                                         *)
(* TLC's integers are 32 bits wide, so a uint32 or uint64 of the code is   *)
(* kept as its big-endian sequence of bytes (most significant byte first)  *)
(* and an int64 as its signed top byte followed by its low bytes; an int32 *)
(* and every narrower quantity is a plain integer.                         *)
(***************************************************************************)
EXTENDS Integers, Sequences, FiniteSets, TLC

\* ------------------------------------------------------------ constants
PageSize == 16384
FilHeaderSize == 38
FilTrailerSize == 8
RecordHeaderSize == 5
SystemRecordBytes == 8
PageDirSlotSize == 2
PageHeaderSize == 56
PageTypeIndex == 17855
PageTypeUndoLog == 2
FormatRedundant == 0
FormatCompact == 1
RecConventional == 0
RecNodePointer == 1
RecInfimum == 2
RecSupremum == 3
LitInfimum == <<105, 110, 102, 105, 109, 117, 109, 0>>
\* a SUPREMUM literal spelt with a capital S
LitSupremumCapital == <<83, 117, 112, 114, 101, 109, 117, 109>>
LitSupremum == <<115, 117, 112, 114, 101, 109, 117, 109>>

\* --------------------------------------------------------------- bounds
\* user record slots a generated page may link into its chain
MaxUserRecs == 2
\* largest value of the walker's max argument
MaxSteps == 4
\* columns a generated table may have
MaxCols == 3

VARIABLES
  page,      \* walker: the page buffer handed to NewInnerPage
  pc,        \* walker: "start", "raw", "rejected", "parsed", "loop", "done"
  idx,       \* walker: the IndexPage ParseIndexPage returned (or NoIndex)
  wmax,      \* walker: WalkRecords' argument max
  wskip,     \* walker: WalkRecords' argument skipSystem
  cur,       \* walker: the loop's current record
  steps,     \* walker: the loop counter
  out,       \* walker: the records collected so far
  werr,      \* walker: the error returned ("nil" for none)
  followed,  \* walker: next-record links dereferenced so far
  fbuf,      \* envelope: the buffer handed to NewInnerPage
  fpc,       \* envelope: "start", "read", "done"
  fres,      \* envelope: what NewInnerPage returned
  cin,       \* column: the column, the buffer and the offset handed to ParseColumn
  cpc,       \* column: "start", "read", "done", "skipped"
  cres,      \* column: what ParseColumn returned
  cskip,     \* column: what SkipColumn returned
  rin,       \* record: the arguments of ParseRecord
  rpc,       \* record: "start", "read", "done"
  rres,      \* record: what ParseRecord returned
  zrd,       \* shim: the CompressedPageReader's enableDecompression and physicalPageSize
  zset,      \* shim: the last SetPhysicalPageSize call and what it returned
  zglob,     \* shim: the page-size globals innodb_zip_decompress writes
  zth,       \* shim: each goroutine's call in progress and its last result
  ttd,       \* schema: the table descriptor
  thist,     \* schema: the AddColumn calls made, each with its column and its error
  tkeys,     \* schema: the SetPrimaryKeys calls made, each with its keys and its error
  tlast,     \* schema: the method called last: "none", "AddColumn", "SetPrimaryKeys"
  tbefore,   \* schema: the descriptor as it was before the last call
  lin,       \* library: the arguments of innodb_decompress_page
  lpc,       \* library: "start", "call", "done"
  lres,      \* library: what innodb_decompress_page returned and the ssize it derived
  grec,      \* values: the caller's GenericRecord, as its Values map
  gpc,       \* values: "start", "made", "set", "got"
  glast,     \* values: the arguments of the last SetValue call
  gget,      \* values: the argument of the last GetValue call and what it returned
  gsets      \* values: the number of SetValue calls made

wvars == <<page, pc, idx, wmax, wskip, cur, steps, out, werr, followed>>

fvars == <<fbuf, fpc, fres>>

cvars == <<cin, cpc, cres, cskip>>

rvars == <<rin, rpc, rres>>

zvars == <<zrd, zset, zglob, zth>>

tvars == <<ttd, thist, tkeys, tlast, tbefore>>

lvars == <<lin, lpc, lres>>

gvars == <<grec, gpc, glast, gget, gsets>>

vars == <<wvars, fvars, cvars, rvars, zvars, tvars, lvars, gvars>>

\* ------------------------------------------------------ byte primitives
ByteAt(p, i) == IF i \in DOMAIN p.bytes THEN p.bytes[i] ELSE 0

InBuf(p, i) == i >= 0 /\ i < p.len

\* format.Be16: ok is FALSE for the "out of bounds" error.
Be16(p, off) ==
  IF off < 0 \/ off + 2 > p.len
    THEN [ok |-> FALSE, v |-> 0]
    ELSE [ok |-> TRUE, v |-> ByteAt(p, off) * 256 + ByteAt(p, off + 1)]

\* format.Be32 and format.Be64: the value as its bytes, most significant first.
BeBytes(p, off, w) ==
  IF off < 0 \/ off + w > p.len
    THEN [ok |-> FALSE, v |-> [i \in 1..w |-> 0]]
    ELSE [ok |-> TRUE, v |-> [i \in 1..w |-> ByteAt(p, off + i - 1)]]

Be32(p, off) == BeBytes(p, off, 4)

Be64(p, off) == BeBytes(p, off, 8)

\* int(int16(u)) for a uint16 u
Int16(u) == IF u >= 32768 THEN u - 65536 ELSE u

\* the bytes p[a:b] of a slice expression whose bounds are known to be valid
Slice(p, a, b) == [i \in 1..(b - a) |-> ByteAt(p, a + i - 1)]

\* ------------------------------------------------------- record header
NoHeader ==
  [FlagsMinRec |-> FALSE, FlagsDeleted |-> FALSE, NumOwned |-> 0,
   HeapNumber |-> 0, Type |-> 0, NextRecOffset |-> 0]

\* The guard in front of the reads of ParseRecordHeader.
HeaderGuardFails(p, off) == off + RecordHeaderSize > p.len

\* record.ParseRecordHeader.  res is "ok", "error" (short record header) or
\* "panic": p[off] with off outside [0, len(p)) is a run-time panic in Go.
ParseRecordHeader(p, off) ==
  IF HeaderGuardFails(p, off)
    THEN [res |-> "error", hdr |-> NoHeader]
  ELSE IF ~InBuf(p, off)
    THEN [res |-> "panic", hdr |-> NoHeader]
  ELSE
    LET b1 == ByteAt(p, off)
        flags == b1 \div 16
        nOwned == b1 % 16
        b2 == Be16(p, off + 1).v
        nxtU == Be16(p, off + 3).v
    IN [res |-> "ok",
        hdr |-> [FlagsMinRec |-> (flags % 2) = 1,
                 FlagsDeleted |-> ((flags \div 2) % 2) = 1,
                 NumOwned |-> nOwned,
                 HeapNumber |-> b2 \div 8,
                 Type |-> b2 % 8,
                 NextRecOffset |-> Int16(nxtU)]]

\* a next-record position that subtracts the offset instead of adding it
NextRecordPosBackward(r) == r.PrimaryKeyPos - r.Header.NextRecOffset

\* GenericRecord.NextRecordPos
NextRecordPos(r) == r.PrimaryKeyPos + r.Header.NextRecOffset

\* -------------------------------------------------------- FIL envelope
\* page.ParseFilHeader: the fields the decoder uses.
ParseFilHeader(p) ==
  IF p.len < PageSize
    THEN [ok |-> FALSE, LastModLSN |-> <<0, 0, 0, 0, 0, 0, 0, 0>>, PageType |-> 0]
    ELSE [ok |-> TRUE, LastModLSN |-> Be64(p, 16).v, PageType |-> Be16(p, 24).v]

\* page.ParseFilTrailer
ParseFilTrailer(p) ==
  IF p.len < FilTrailerSize
    THEN [ok |-> FALSE, Low32LSN |-> <<0, 0, 0, 0>>]
    ELSE [ok |-> TRUE, Low32LSN |-> Be32(p, PageSize - FilTrailerSize + 4).v]

\* uint32(lsn & 0xffffffff) of a uint64
Low32(lsn) == SubSeq(lsn, 5, 8)

\* the length test of NewInnerPage
PageLenOk(p) == p.len = PageSize

\* the LSN comparison of NewInnerPage
LsnMatchesHighWord(h, t) == SubSeq(h.LastModLSN, 1, 4) = t.Low32LSN

LsnMatches(h, t) == Low32(h.LastModLSN) = t.Low32LSN

NoInner ==
  [ok |-> FALSE, err |-> "nil", PageType |-> 0, Data |-> [len |-> 0, bytes |-> <<>>]]

\* NewInnerPage: err is "ShortPage" (expected 16384B page / short page),
\* "LsnMismatch" (low32 LSN mismatch) or "nil".
NewInnerPage(p) ==
  IF ~PageLenOk(p) THEN [NoInner EXCEPT !.err = "ShortPage"]
  ELSE LET h == ParseFilHeader(p)
           t == ParseFilTrailer(p)
       IN IF ~h.ok THEN [NoInner EXCEPT !.err = "ShortPage"]
          ELSE IF ~t.ok THEN [NoInner EXCEPT !.err = "ShortTrailer"]
          ELSE IF ~LsnMatches(h, t) THEN [NoInner EXCEPT !.err = "LsnMismatch"]
          ELSE [ok |-> TRUE, err |-> "nil", PageType |-> h.PageType, Data |-> p]

\* ------------------------------------------------------ column schema
\* schema.Column.IsVariableLength
IsVariableLength(c) ==
  IF c.Type \in {"VARCHAR", "VARBINARY", "TEXT", "TINYTEXT", "MEDIUMTEXT", "LONGTEXT",
                 "BLOB", "TINYBLOB", "MEDIUMBLOB", "LONGBLOB", "JSON"}
    THEN TRUE
  ELSE IF c.Type \in {"CHAR", "BINARY"}
    THEN c.Charset # "" /\ c.Charset # "latin1" /\ c.Charset # "ascii"
  ELSE FALSE

\* a column descriptor with the fields the parsers read
Column(name, type, length, nullable, charset) ==
  [Name |-> name, Type |-> type, Ordinal |-> 0, Length |-> length, Precision |-> 0,
   Nullable |-> nullable, Unsigned |-> FALSE, Charset |-> charset,
   IsPrimaryKey |-> FALSE]

\* ------------------------------------------------------- column values
\* A decoded value: an integer (k = "int"), raw bytes most significant first
\* for a uint32 or uint64 (k = "uint"), an int64 as its signed top byte and
\* its seven low bytes (k = "int64"), a string or a byte slice as its bytes
\* (k = "str", "bytes"), a boolean, the seconds of a TIMESTAMP as their four
\* bytes (k = "unixtime"), the packed bytes of a TIME
\* (k = "packed"), the fields of a DATETIME and the fraction handed to the
\* formatter (k = "datetime"), or nil.
IntV(n) == [k |-> "int", v |-> n]

UintV(b) == [k |-> "uint", v |-> b]

Int64V(top, low) == [k |-> "int64", v |-> <<top>> \o low]

StrV(b) == [k |-> "str", v |-> b]

BytesV(b) == [k |-> "bytes", v |-> b]

BoolV(b) == [k |-> "bool", v |-> b]

TimeV(b) == [k |-> "unixtime", v |-> b]

PackedV(b) == [k |-> "packed", v |-> b]

DateTimeV(f, fraction) == [k |-> "datetime", v |-> [f |-> f, fraction |-> fraction]]

NilV == [k |-> "nil", v |-> 0]

\* what Skip returns: (bytes, err)
Skipped(n, err) == [n |-> n, err |-> err]

\* what Parse returns: (value, bytesRead, err)
Parsed(val, n, err) == [val |-> val, n |-> n, err |-> err]

\* 2^(8w) for the widths below 4 bytes
Pow256(w) == IF w = 0 THEN 1 ELSE IF w = 1 THEN 256 ELSE IF w = 2 THEN 65536 ELSE 16777216

\* v ^ (1 << (8w-1)) for a w-byte unsigned v
XorSignBit(v, w) == (v + Pow256(w) \div 2) % Pow256(w)

\* the conversion intN(v) of a w-byte unsigned v
ToSigned(v, w) == IF v >= Pow256(w) \div 2 THEN v - Pow256(w) ELSE v

\* --------------------------------------------------------- BaseParser
\* BaseParser.readBytes
ReadBytes(p, off, length) ==
  IF off + length > p.len
    THEN [err |-> "ErrShortRead", v |-> <<>>]
    ELSE [err |-> "nil", v |-> Slice(p, off, off + length)]

\* BaseParser.readUint8
ReadUint8(p, off) ==
  IF off + 1 > p.len THEN [err |-> "ErrShortRead", v |-> 0]
  ELSE [err |-> "nil", v |-> ByteAt(p, off)]

\* BaseParser.readUint16
ReadUint16(p, off) ==
  LET r == Be16(p, off) IN [err |-> IF r.ok THEN "nil" ELSE "OutOfBounds", v |-> r.v]

\* BaseParser.readUint32
ReadUint32(p, off) ==
  LET r == Be32(p, off) IN [err |-> IF r.ok THEN "nil" ELSE "OutOfBounds", v |-> r.v]

\* BaseParser.readUint64
ReadUint64(p, off) ==
  LET r == Be64(p, off) IN [err |-> IF r.ok THEN "nil" ELSE "OutOfBounds", v |-> r.v]

\* BaseParser.readInt8: int8(val ^ 0x80)
ReadInt8(p, off) ==
  LET r == ReadUint8(p, off)
  IN IF r.err # "nil" THEN [err |-> r.err, v |-> 0]
     ELSE [err |-> "nil", v |-> ToSigned(XorSignBit(r.v, 1), 1)]

\* BaseParser.readInt16: int16(val ^ 0x8000)
ReadInt16(p, off) ==
  LET r == ReadUint16(p, off)
  IN IF r.err # "nil" THEN [err |-> r.err, v |-> 0]
     ELSE [err |-> "nil", v |-> ToSigned(XorSignBit(r.v, 2), 2)]

\* BaseParser.readInt32: int32(val ^ 0x80000000); the top byte carries the sign
ReadInt32(p, off) ==
  LET r == ReadUint32(p, off)
  IN IF r.err # "nil" THEN [err |-> r.err, v |-> 0]
     ELSE [err |-> "nil",
           v |-> ToSigned(XorSignBit(r.v[1], 1), 1) * 16777216
                 + r.v[2] * 65536 + r.v[3] * 256 + r.v[4]]

\* BaseParser.readInt64: int64(val ^ 0x8000000000000000)
ReadInt64(p, off) ==
  LET r == ReadUint64(p, off)
  IN IF r.err # "nil" THEN [err |-> r.err, v |-> Int64V(0, <<0, 0, 0, 0, 0, 0, 0>>)]
     ELSE [err |-> "nil",
           v |-> Int64V(ToSigned(XorSignBit(r.v[1], 1), 1), SubSeq(r.v, 2, 8))]

\* the three bytes at off combined as the code combines them:
\* input[off] | input[off+1] << 8 | input[off+2] << 16
Combine3(p, off) ==
  ByteAt(p, off) + ByteAt(p, off + 1) * 256 + ByteAt(p, off + 2) * 65536

\* BaseParser.readMediumInt: XOR 0x800000, then sign extension to int32
ReadMediumInt(p, off) ==
  IF off + 3 > p.len THEN [err |-> "ErrShortRead", v |-> 0]
  ELSE [err |-> "nil", v |-> ToSigned(XorSignBit(Combine3(p, off), 3), 3)]

\* BaseParser.readUnsignedMediumInt
ReadUnsignedMediumInt(p, off) ==
  IF off + 3 > p.len THEN [err |-> "ErrShortRead", v |-> 0]
  ELSE [err |-> "nil", v |-> Combine3(p, off)]

\* --------------------------------------------------------- IntParser
\* IntParser.Parse
IntParse(p, off, col) ==
  CASE col.Type = "TINYINT" ->
         IF col.Unsigned
           THEN LET r == ReadUint8(p, off) IN Parsed(IntV(r.v), 1, r.err)
           ELSE LET r == ReadInt8(p, off) IN Parsed(IntV(r.v), 1, r.err)
    [] col.Type \in {"SMALLINT", "YEAR"} ->
         IF col.Unsigned
           THEN LET r == ReadUint16(p, off) IN Parsed(IntV(r.v), 2, r.err)
         ELSE IF col.Type = "YEAR"
           THEN LET r == ReadUint8(p, off)
                IN IF r.err # "nil" THEN Parsed(NilV, 0, r.err)
                   ELSE IF r.v = 0 THEN Parsed(IntV(0), 1, "nil")
                   ELSE Parsed(IntV(r.v + 1900), 1, "nil")
         ELSE LET r == ReadInt16(p, off) IN Parsed(IntV(r.v), 2, r.err)
    [] col.Type = "MEDIUMINT" ->
         IF col.Unsigned
           THEN LET r == ReadUnsignedMediumInt(p, off) IN Parsed(IntV(r.v), 3, r.err)
           ELSE LET r == ReadMediumInt(p, off) IN Parsed(IntV(r.v), 3, r.err)
    [] col.Type = "INT" ->
         IF col.Unsigned
           THEN LET r == ReadUint32(p, off) IN Parsed(UintV(r.v), 4, r.err)
           ELSE LET r == ReadInt32(p, off) IN Parsed(IntV(r.v), 4, r.err)
    [] col.Type = "BIGINT" ->
         IF col.Unsigned
           THEN LET r == ReadUint64(p, off) IN Parsed(UintV(r.v), 8, r.err)
           ELSE LET r == ReadInt64(p, off) IN Parsed(r.v, 8, r.err)
    [] col.Type \in {"BOOLEAN", "BOOL"} ->
         LET r == ReadUint8(p, off)
         IN IF r.err # "nil" THEN Parsed(NilV, 0, r.err)
            ELSE Parsed(BoolV(r.v # 0), 1, "nil")
    [] OTHER -> Parsed(NilV, 0, "ErrUnsupportedType")

\* -------------------------------------------------------- StringParser
\* strings.TrimRight(str, " ")
RECURSIVE TrimRight(_)
TrimRight(b) ==
  IF Len(b) > 0 /\ b[Len(b)] = 32 THEN TrimRight(SubSeq(b, 1, Len(b) - 1)) ELSE b

\* the byte length of a fixed CHAR(n) in its character set
CharBytes(col) ==
  IF col.Charset = "utf8mb4" THEN col.Length * 4
  ELSE IF col.Charset = "utf8" THEN col.Length * 3
  ELSE col.Length

\* StringParser.Parse
StringParse(p, off, col, varLen) ==
  CASE col.Type = "CHAR" ->
         LET length == IF IsVariableLength(col) /\ varLen > 0 THEN varLen ELSE CharBytes(col)
             r == ReadBytes(p, off, length)
         IN IF r.err # "nil" THEN Parsed(NilV, 0, r.err)
            ELSE Parsed(StrV(TrimRight(r.v)), length, "nil")
    [] col.Type \in {"VARCHAR", "TEXT", "TINYTEXT", "MEDIUMTEXT", "LONGTEXT"} ->
         IF varLen <= 0 THEN Parsed(StrV(<<>>), 0, "nil")
         ELSE LET r == ReadBytes(p, off, varLen)
              IN IF r.err # "nil" THEN Parsed(NilV, 0, r.err)
                 ELSE Parsed(StrV(r.v), varLen, "nil")
    [] col.Type = "BINARY" ->
         LET r == ReadBytes(p, off, col.Length)
         IN IF r.err # "nil" THEN Parsed(NilV, 0, r.err)
            ELSE Parsed(BytesV(r.v), col.Length, "nil")
    [] col.Type \in {"VARBINARY", "BLOB", "TINYBLOB", "MEDIUMBLOB", "LONGBLOB"} ->
         IF varLen <= 0 THEN Parsed(BytesV(<<>>), 0, "nil")
         ELSE LET r == ReadBytes(p, off, varLen)
              IN IF r.err # "nil" THEN Parsed(NilV, 0, r.err)
                 ELSE Parsed(BytesV(r.v), varLen, "nil")
    [] OTHER -> Parsed(NilV, 0, "ErrUnsupportedType")

\* ------------------------------------------------------ DateTimeParser
\* the decimal digits of n as characters, most significant first
RECURSIVE Digits(_)
Digits(n) == IF n < 10 THEN <<48 + n>> ELSE Digits(n \div 10) \o <<48 + (n % 10)>>

\* fmt's %0<width>d for a non-negative n
RECURSIVE ZeroPad(_, _)
ZeroPad(b, width) == IF Len(b) >= width THEN b ELSE ZeroPad(<<48>> \o b, width)

\* fmt.Sprintf("%04d-%02d-%02d", year, month, day)
FormatDate(year, month, day) ==
  ZeroPad(Digits(year), 4) \o <<45>> \o ZeroPad(Digits(month), 2) \o <<45>>
    \o ZeroPad(Digits(day), 2)

\* 1 << n
RECURSIVE Pow2(_)
Pow2(n) == IF n = 0 THEN 1 ELSE 2 * Pow2(n - 1)

\* (v >> lo) & (2^width - 1) of an unsigned value held as its bytes, most
\* significant first
BitField(v, lo, width) ==
  LET Bit(j) == (v[Len(v) - j \div 8] \div Pow2(j % 8)) % 2
      RECURSIVE Sum(_)
      Sum(j) == IF j = width THEN 0 ELSE Bit(lo + j) * Pow2(j) + Sum(j + 1)
  IN Sum(0)

\* the loop that fills packedValue or usec from n bytes at offset: the byte
\* at offset + n - 1 is shifted in first and ends up most significant
UnpackBytes(p, off, n) == [i \in 1..n |-> ByteAt(p, off + n - i)]

\* the fields the DATETIME branch takes out of packedValue
DateTimeFields(packed) ==
  LET yearMonth == BitField(packed, 22, 17)
  IN [second |-> BitField(packed, 0, 6), minute |-> BitField(packed, 6, 6),
      hour |-> BitField(packed, 12, 5), day |-> BitField(packed, 17, 5),
      month |-> yearMonth % 13, year |-> yearMonth \div 13]

\* DateTimeParser.readFraction, past its bounds check: the bytes unpacked as
\* usec, then multiplied by 100 while the precision, raised by two each time,
\* is below six
ReadFraction(p, off, precision) ==
  LET bufsz == (precision + 1) \div 2
      usec == BitField(UnpackBytes(p, off, bufsz), 0, 8 * bufsz)
      RECURSIVE Normalize(_, _)
      Normalize(u, prec) == IF prec < 6 THEN Normalize(u * 100, prec + 2) ELSE u
  IN IF precision <= 0 THEN 0 ELSE Normalize(usec, precision)

\* the fields the DATE branch takes out of the 24-bit value after the XOR
DateFields(val) ==
  LET x == XorSignBit(val, 3)
  IN [day |-> x % 32, month |-> (x \div 32) % 16, year |-> x \div 512]

\* DateTimeParser.Parse.  DATE is decoded and formatted and DATETIME is
\* decoded to the fields the code formats; for TIMESTAMP and TIME the bytes
\* consumed and the errors are the code's and the value is the bytes the code
\* unpacks.
DateTimeParse(p, off, col) ==
  CASE col.Type = "DATE" ->
         LET r == ReadUnsignedMediumInt(p, off)
             f == DateFields(r.v)
         IN IF r.err # "nil" THEN Parsed(NilV, 0, r.err)
            ELSE Parsed(StrV(FormatDate(f.year, f.month, f.day)), 3, "nil")
    [] col.Type = "TIMESTAMP" ->
         LET r == ReadUint32(p, off)
         IN IF r.err # "nil" THEN Parsed(NilV, 0, r.err)
            ELSE Parsed(TimeV(r.v), 4, "nil")
    [] col.Type = "DATETIME" ->
         LET frac == (col.Precision + 1) \div 2
         IN IF off + 5 > p.len THEN Parsed(NilV, 0, "ShortDatetime")
            ELSE IF col.Precision > 0 /\ off + 5 + frac > p.len
              THEN Parsed(NilV, 0, "ShortFraction")
            ELSE IF col.Precision > 0
              THEN Parsed(DateTimeV(DateTimeFields(UnpackBytes(p, off, 5)),
                                    ReadFraction(p, off + 5, col.Precision)),
                          5 + frac, "nil")
            ELSE Parsed(DateTimeV(DateTimeFields(UnpackBytes(p, off, 5)), 0), 5, "nil")
    [] col.Type = "TIME" ->
         LET bufSize == 3 + (col.Precision + 1) \div 2
         IN IF off + bufSize > p.len THEN Parsed(NilV, 0, "ShortTime")
            ELSE Parsed(PackedV(Slice(p, off, off + bufSize)), bufSize, "nil")
    [] OTHER -> Parsed(NilV, 0, "ErrUnsupportedType")

\* ------------------------------------------------------------- factory
IntTypes == {"TINYINT", "SMALLINT", "MEDIUMINT", "INT", "BIGINT", "YEAR", "BOOLEAN", "BOOL"}

StringTypes ==
  {"CHAR", "VARCHAR", "TEXT", "TINYTEXT", "MEDIUMTEXT", "LONGTEXT",
   "BINARY", "VARBINARY", "BLOB", "TINYBLOB", "MEDIUMBLOB", "LONGBLOB"}

DateTimeTypes == {"DATE", "TIME", "DATETIME", "TIMESTAMP"}

\* column.GetParser
GetParser(col) ==
  IF col.Type \in IntTypes THEN "intParser"
  ELSE IF col.Type \in StringTypes THEN "stringParser"
  ELSE IF col.Type \in DateTimeTypes THEN "dateTimeParser"
  ELSE "nil"

\* IntParser.Skip
IntSkip(col) ==
  CASE col.Type \in {"TINYINT", "BOOLEAN", "BOOL"} -> Skipped(1, "nil")
    [] col.Type = "SMALLINT" -> Skipped(2, "nil")
    [] col.Type = "YEAR" -> Skipped(1, "nil")
    [] col.Type = "MEDIUMINT" -> Skipped(3, "nil")
    [] col.Type = "INT" -> Skipped(4, "nil")
    [] col.Type = "BIGINT" -> Skipped(8, "nil")
    [] OTHER -> Skipped(0, "ErrUnsupportedType")

\* StringParser.Skip
StringSkip(col, varLen) ==
  CASE col.Type = "CHAR" ->
         IF IsVariableLength(col) /\ varLen > 0 THEN Skipped(varLen, "nil")
         ELSE Skipped(CharBytes(col), "nil")
    [] col.Type \in {"VARCHAR", "TEXT", "TINYTEXT", "MEDIUMTEXT", "LONGTEXT",
                     "VARBINARY", "BLOB", "TINYBLOB", "MEDIUMBLOB", "LONGBLOB"} ->
         Skipped(varLen, "nil")
    [] col.Type = "BINARY" -> Skipped(col.Length, "nil")
    [] OTHER -> Skipped(0, "ErrUnsupportedType")

\* DateTimeParser.Skip
DateTimeSkip(col) ==
  CASE col.Type = "DATE" -> Skipped(3, "nil")
    [] col.Type = "TIMESTAMP" -> Skipped(4 + (col.Precision + 1) \div 2, "nil")
    [] col.Type = "DATETIME" -> Skipped(5 + (col.Precision + 1) \div 2, "nil")
    [] col.Type = "TIME" -> Skipped(3 + (col.Precision + 1) \div 2, "nil")
    [] col.Type = "YEAR" -> Skipped(1, "nil")
    [] OTHER -> Skipped(0, "ErrUnsupportedType")

\* column.SkipColumn
SkipColumn(p, off, col, varLen) ==
  CASE GetParser(col) = "intParser" -> IntSkip(col)
    [] GetParser(col) = "stringParser" -> StringSkip(col, varLen)
    [] GetParser(col) = "dateTimeParser" -> DateTimeSkip(col)
    [] OTHER -> Skipped(0, "ErrUnsupportedType")

\* a ParseColumn that passes over a column it has no parser for
ParseColumnSkipsUnknown(p, off, col, varLen) ==
  CASE GetParser(col) = "intParser" -> IntParse(p, off, col)
    [] GetParser(col) = "stringParser" -> StringParse(p, off, col, varLen)
    [] GetParser(col) = "dateTimeParser" -> DateTimeParse(p, off, col)
    [] OTHER -> Parsed(NilV, 0, "nil")

\* column.ParseColumn
ParseColumn(p, off, col, varLen) ==
  CASE GetParser(col) = "intParser" -> IntParse(p, off, col)
    [] GetParser(col) = "stringParser" -> StringParse(p, off, col, varLen)
    [] GetParser(col) = "dateTimeParser" -> DateTimeParse(p, off, col)
    [] OTHER -> Parsed(NilV, 0, "ErrUnsupportedType")

\* ------------------------------------------------------------ TableDef
\* A TableDef.  Its cached lists hold pointers to the columns of Columns;
\* a pointer is the column's position in Columns, so a field set through
\* one list is seen through all of them.
NewTableDef ==
  [Columns |-> <<>>, PrimaryKeys |-> <<>>, nullableColumns |-> <<>>,
   varLenColumns |-> <<>>, primaryKeyColumns |-> <<>>]

\* the lookup td.ColumnMap[name]: 0 when the name is not a key
ColumnMap(td, name) ==
  IF \E i \in 1..Len(td.Columns) : td.Columns[i].Name = name
    THEN CHOOSE i \in 1..Len(td.Columns) : td.Columns[i].Name = name
    ELSE 0

\* an AddColumn that numbers the columns from 1
AddColumnFromOne(td, col) ==
  IF ColumnMap(td, col.Name) # 0
    THEN [td |-> td, err |-> "ColumnExists"]
    ELSE LET at == Len(td.Columns) + 1
         IN [td |-> [td EXCEPT
                       !.Columns = Append(@, [col EXCEPT !.Ordinal = Len(td.Columns) + 1]),
                       !.nullableColumns = IF col.Nullable THEN Append(@, at) ELSE @,
                       !.varLenColumns = IF IsVariableLength(col) THEN Append(@, at) ELSE @],
             err |-> "nil"]

\* TableDef.AddColumn
AddColumn(td, col) ==
  IF ColumnMap(td, col.Name) # 0
    THEN [td |-> td, err |-> "ColumnExists"]
    ELSE LET at == Len(td.Columns) + 1
         IN [td |-> [td EXCEPT
                       !.Columns = Append(@, [col EXCEPT !.Ordinal = Len(td.Columns)]),
                       !.nullableColumns = IF col.Nullable THEN Append(@, at) ELSE @,
                       !.varLenColumns = IF IsVariableLength(col) THEN Append(@, at) ELSE @],
             err |-> "nil"]

\* the loop of TableDef.SetPrimaryKeys from keys[i] on
RECURSIVE SetPrimaryKeysFrom(_, _, _)
SetPrimaryKeysFrom(td, keys, i) ==
  IF i > Len(keys) THEN [td |-> td, err |-> "nil"]
  ELSE LET at == ColumnMap(td, keys[i])
       IN IF at = 0 THEN [td |-> td, err |-> "KeyNotFound"]
          ELSE SetPrimaryKeysFrom(
                 [td EXCEPT !.Columns[at].IsPrimaryKey = TRUE,
                            !.primaryKeyColumns = Append(@, at)],
                 keys, i + 1)

\* TableDef.SetPrimaryKeys
SetPrimaryKeys(td, keys) ==
  SetPrimaryKeysFrom([td EXCEPT !.PrimaryKeys = keys, !.primaryKeyColumns = <<>>], keys, 1)

\* TableDef.HasPrimaryKey
HasPrimaryKey(td) == Len(td.PrimaryKeys) > 0

NullableColumnCount(td) == Len(td.nullableColumns)

HasNullableColumn(td) == Len(td.nullableColumns) > 0

HasVariableLengthColumn(td) == Len(td.varLenColumns) > 0

NullBitmapSize(td) == (NullableColumnCount(td) + 7) \div 8

\* TableDef.GetPrimaryKeyVarLenColumns
GetPrimaryKeyVarLenColumns(td) ==
  SelectSeq(td.primaryKeyColumns, LAMBDA at : IsVariableLength(td.Columns[at]))

\* ------------------------------------------------------- CompactParser
\* CompactParser.needsTwoByteLength
needsTwoByteLength(col, firstByte) ==
  IF firstByte <= 127 THEN FALSE
  ELSE IF col.Type \in {"TEXT", "MEDIUMTEXT", "LONGTEXT", "BLOB", "MEDIUMBLOB", "LONGBLOB"}
    THEN TRUE
  ELSE IF col.Type \in {"VARCHAR", "VARBINARY"}
    THEN (IF col.Charset = "utf8mb4" THEN col.Length * 4
          ELSE IF col.Charset = "utf8" THEN col.Length * 3
          ELSE col.Length) > 255
  ELSE FALSE


\* a bitmap read whose byte 0 is the byte nearest the record header
ReadNullBitmapNearestFirst(td, p, headerPos, isLeafPage) ==
  LET n == NullableColumnCount(td)
      at == headerPos - NullBitmapSize(td)
  IN IF ~(isLeafPage /\ HasNullableColumn(td))
       THEN [err |-> "nil", size |-> 0, bits |-> [k \in 1..n |-> FALSE]]
     ELSE IF at < 0
       THEN [err |-> "InvalidNullBitmapPosition", size |-> NullBitmapSize(td), bits |-> <<>>]
     ELSE [err |-> "nil", size |-> NullBitmapSize(td),
           bits |-> [k \in 1..n |->
                       (ByteAt(p, headerPos - 1 - (k - 1) \div 8) \div Pow2((k - 1) % 8)) % 2 = 1]]

\* Step 1 of ParseRecord: bits[k] is the code's nullBitmap[k-1]
ReadNullBitmap(td, p, headerPos, isLeafPage) ==
  LET n == NullableColumnCount(td)
      at == headerPos - NullBitmapSize(td)
  IN IF ~(isLeafPage /\ HasNullableColumn(td))
       THEN [err |-> "nil", size |-> 0, bits |-> [k \in 1..n |-> FALSE]]
     ELSE IF at < 0
       THEN [err |-> "InvalidNullBitmapPosition", size |-> NullBitmapSize(td), bits |-> <<>>]
     ELSE [err |-> "nil", size |-> NullBitmapSize(td),
           bits |-> [k \in 1..n |->
                       (ByteAt(p, at + (k - 1) \div 8) \div Pow2((k - 1) % 8)) % 2 = 1]]

\* the isNull search the three column loops of ParseRecord share
IsNull(td, col, bits) ==
  /\ col.Nullable
  /\ \E k \in 1..Len(td.nullableColumns) :
        td.Columns[td.nullableColumns[k]].Name = col.Name /\ bits[k]

\* Step 2 of ParseRecord from varColumns[i] on: the cursor varHeaderPos moves
\* toward lower addresses, and varLengths collects the decoded lengths; read
\* keeps, for each column a length was read for, its name and that length.
RECURSIVE VarLenLoop(_, _, _, _, _, _, _, _)
VarLenLoop(td, p, bits, varColumns, i, varHeaderPos, varLengths, read) ==
  IF i > Len(varColumns) THEN [err |-> "nil", varLengths |-> varLengths, read |-> read]
  ELSE
    LET col == td.Columns[varColumns[i]]
        first == ByteAt(p, varHeaderPos - 1)
        second == ByteAt(p, varHeaderPos - 2)
        long == (first % 64) * 256 + second
    IN IF IsNull(td, col, bits)
         THEN VarLenLoop(td, p, bits, varColumns, i + 1, varHeaderPos, <<0>> \o varLengths,
                         read)
       ELSE IF varHeaderPos - 1 < 0
         THEN [err |-> "InvalidVariableHeaderPosition", varLengths |-> varLengths,
               read |-> read]
       ELSE IF ~needsTwoByteLength(col, first)
         THEN VarLenLoop(td, p, bits, varColumns, i + 1, varHeaderPos - 1,
                         Append(varLengths, first),
                         Append(read, [name |-> col.Name, length |-> first]))
       ELSE IF varHeaderPos - 2 < 0
         THEN [err |-> "InvalidVariableHeaderPosition", varLengths |-> varLengths,
               read |-> read]
       ELSE IF (first \div 64) % 2 = 1
         THEN [err |-> "OverflowNotSupported", varLengths |-> varLengths, read |-> read]
       ELSE VarLenLoop(td, p, bits, varColumns, i + 1, varHeaderPos - 2,
                       Append(varLengths, long),
                       Append(read, [name |-> col.Name, length |-> long]))

\* Step 3 of ParseRecord: the loop body both column loops share, from cols[i]
\* on.  st carries dataPos, varLenIdx, Values, the error, and spans: the
\* byte range [from, to) each decoded column was read from and the varLen it
\* was decoded with.
RECURSIVE ColumnLoop(_, _, _, _, _, _, _)
ColumnLoop(td, p, bits, varLengths, cols, i, st) ==
  IF i > Len(cols) THEN st
  ELSE
    LET col == td.Columns[cols[i]]
        takes == IsVariableLength(col) /\ st.varLenIdx < Len(varLengths)
        varLen == IF takes THEN varLengths[st.varLenIdx + 1] ELSE 0
        r == ParseColumn(p, st.dataPos, col, varLen)
    IN IF IsNull(td, col, bits)
         THEN ColumnLoop(td, p, bits, varLengths, cols, i + 1,
                [st EXCEPT !.Values = (col.Name :> NilV) @@ @,
                           !.varLenIdx = IF IsVariableLength(col) THEN @ + 1 ELSE @])
       ELSE IF r.err # "nil"
         THEN [st EXCEPT !.err = r.err]
       ELSE ColumnLoop(td, p, bits, varLengths, cols, i + 1,
                [st EXCEPT !.Values = (col.Name :> r.val) @@ @,
                           !.dataPos = @ + r.n,
                           !.varLenIdx = IF takes THEN @ + 1 ELSE @,
                           !.spans = Append(@, [name |-> col.Name, from |-> st.dataPos,
                                                to |-> st.dataPos + r.n,
                                                varLen |-> varLen])])

\* the columns the second loop visits: td.Columns without the primary key
NonPrimaryKeyColumns(td) ==
  SelectSeq([i \in 1..Len(td.Columns) |-> i], LAMBDA at : ~td.Columns[at].IsPrimaryKey)

\* the raw bytes ParseRecord keeps in record.Data
RecordData(p, recordPos, next, dataPos) ==
  LET endPos ==
        IF next <= 0 \/ recordPos + next > p.len
          THEN (IF dataPos - recordPos > 100 THEN recordPos + 100 ELSE dataPos)
          ELSE recordPos + next
  IN IF endPos > recordPos /\ endPos <= p.len THEN Slice(p, recordPos, endPos) ELSE <<>>

\* What ParseRecord returns, with what it did on the way.  res is "ok",
\* "error" or "panic"; Header, PrimaryKeyPos, Values and Data are the fields
\* of the returned record.  varLengths, read (the lengths of step 2 with
\* their columns), spans, pkEnd (dataPos after the primary-key loop),
\* nonPkStart (dataPos when the second loop starts) and overread (a read at
\* or past len(pageData)) record the run itself.
NoParse ==
  [kind |-> "record", res |-> "error", err |-> "nil", Header |-> NoHeader,
   PrimaryKeyPos |-> 0, Values |-> [n \in {} |-> NilV], Data |-> <<>>,
   varLengths |-> <<>>, read |-> <<>>, spans |-> <<>>, pkEnd |-> 0, nonPkStart |-> 0,
   overread |-> FALSE]

\* the user-record part of ParseRecord (steps 1 to 3)
ParseUserRecord(td, p, recordPos, isLeafPage, header) ==
  LET headerPos == recordPos - RecordHeaderSize
      nb == ReadNullBitmap(td, p, headerPos, isLeafPage)
      varColumns == IF isLeafPage THEN td.varLenColumns ELSE GetPrimaryKeyVarLenColumns(td)
      vl == IF HasVariableLengthColumn(td)
              THEN VarLenLoop(td, p, nb.bits, varColumns, 1, headerPos - nb.size, <<>>, <<>>)
              ELSE [err |-> "nil", varLengths |-> <<>>, read |-> <<>>]
      st0 == [dataPos |-> recordPos, varLenIdx |-> 0, Values |-> [n \in {} |-> NilV],
              spans |-> <<>>, err |-> "nil"]
      st1 == ColumnLoop(td, p, nb.bits, vl.varLengths, td.primaryKeyColumns, 1, st0)
      st2 == [st1 EXCEPT !.dataPos = IF isLeafPage THEN @ + 13 ELSE @]
      st3 == ColumnLoop(td, p, nb.bits, vl.varLengths, NonPrimaryKeyColumns(td), 1, st2)
      base == [NoParse EXCEPT !.Header = header, !.PrimaryKeyPos = recordPos]
  IN IF nb.err # "nil" THEN [base EXCEPT !.err = nb.err]
     ELSE IF vl.err # "nil"
       THEN [base EXCEPT !.err = vl.err, !.varLengths = vl.varLengths, !.read = vl.read]
     ELSE IF st1.err # "nil"
       THEN [base EXCEPT !.err = st1.err, !.varLengths = vl.varLengths, !.read = vl.read,
                         !.spans = st1.spans]
     ELSE IF st3.err # "nil"
       THEN [base EXCEPT !.err = st3.err, !.varLengths = vl.varLengths, !.read = vl.read,
                         !.spans = st3.spans, !.pkEnd = st1.dataPos,
                         !.nonPkStart = st2.dataPos]
     ELSE [base EXCEPT !.res = "ok", !.Values = st3.Values,
                       !.Data = RecordData(p, recordPos, header.NextRecOffset, st3.dataPos),
                       !.varLengths = vl.varLengths, !.read = vl.read, !.spans = st3.spans,
                       !.pkEnd = st1.dataPos, !.nonPkStart = st2.dataPos]

\* CompactParser.ParseRecord on a buffer p of capacity cap >= p.len.  The
\* slice pageData[recordPos : recordPos+8] of a system record is checked by
\* Go against the capacity: past it the expression panics, and between the
\* length and the capacity it yields bytes behind the end of the buffer.
ParseRecord(td, p, cap, recordPos, isLeafPage) ==
  LET headerPos == recordPos - RecordHeaderSize
      h == ParseRecordHeader(p, headerPos)
  IN IF headerPos < 0 THEN [NoParse EXCEPT !.err = "InvalidRecordPosition"]
     ELSE IF h.res # "ok" THEN [NoParse EXCEPT !.err = "ParseRecordHeader"]
     ELSE IF h.hdr.Type = RecInfimum \/ h.hdr.Type = RecSupremum
       THEN IF recordPos + SystemRecordBytes > cap
              THEN [NoParse EXCEPT !.res = "panic", !.Header = h.hdr,
                                   !.PrimaryKeyPos = recordPos]
              ELSE [NoParse EXCEPT !.res = "ok", !.Header = h.hdr,
                                   !.PrimaryKeyPos = recordPos,
                                   !.Data = Slice(p, recordPos, recordPos + SystemRecordBytes),
                                   !.overread = recordPos + SystemRecordBytes > p.len]
     ELSE ParseUserRecord(td, p, recordPos, isLeafPage, h.hdr)

\* ---------------------------------------------------------- INDEX page
\* record.ParseIndexHeader: the fields the decoder uses.
ParseIndexHeader(p, off) ==
  IF off + 36 > p.len
    THEN [ok |-> FALSE, NumDirSlots |-> 0, NumHeapRecs |-> 0,
          Format |-> FormatRedundant, NumUserRecs |-> 0, PageLevel |-> 0]
    ELSE LET flag == Be16(p, off + 4).v
         IN [ok |-> TRUE,
             NumDirSlots |-> Be16(p, off + 0).v,
             NumHeapRecs |-> flag % 32768,
             Format |-> IF flag >= 32768 THEN FormatCompact ELSE FormatRedundant,
             NumUserRecs |-> Be16(p, off + 16).v,
             PageLevel |-> Be16(p, off + 26).v]

\* page.ParseFsegHeader: only its length check matters to the decoder.
ParseFsegHeaderOk(p, off) == off + 20 <= p.len

NoRecord == [Header |-> NoHeader, PrimaryKeyPos |-> 0, DataLen |-> 0]

NoIndex ==
  [ok |-> FALSE, err |-> "nil", Hdr |-> ParseIndexHeader([len |-> 0, bytes |-> <<>>], 0),
   Infimum |-> NoRecord, Supremum |-> NoRecord, DirSlots |-> <<>>]

\* The directory of ParseIndexPage: dir[n-i-1] = Be16(start + 2i), as a
\* 1-based sequence (DirSlots[j+1] is the code's dir[j]).
ReadDirSlots(p, n) ==
  LET start == PageSize - FilTrailerSize - n * PageDirSlotSize
  IN [j \in 1..n |-> Be16(p, start + (n - j) * 2).v]

\* page.ParseIndexPage on the InnerPage ip.  err is "NotIndexPage",
\* "UnsupportedRedundantFormat" (only compact pages supported),
\* "CorruptSystemRecord" (INFIMUM/SUPREMUM literal mismatch), "Short" or "nil".
ParseIndexPage(ip) ==
  LET p == ip.Data
      hdr == ParseIndexHeader(p, FilHeaderSize)
      infPos == FilHeaderSize + PageHeaderSize
      infHdr == ParseRecordHeader(p, infPos)
      infCur == infPos + RecordHeaderSize
      supPos == infCur + SystemRecordBytes
      supHdr == ParseRecordHeader(p, supPos)
      supCur == supPos + RecordHeaderSize
  IN IF ip.PageType # PageTypeIndex THEN [NoIndex EXCEPT !.err = "NotIndexPage"]
     ELSE IF ~hdr.ok THEN [NoIndex EXCEPT !.err = "Short"]
     ELSE IF hdr.Format # FormatCompact
       THEN [NoIndex EXCEPT !.err = "UnsupportedRedundantFormat"]
     ELSE IF ~ParseFsegHeaderOk(p, FilHeaderSize + 36) THEN [NoIndex EXCEPT !.err = "Short"]
     ELSE IF infHdr.res # "ok" THEN [NoIndex EXCEPT !.err = "Short"]
     ELSE IF Slice(p, infCur, infCur + SystemRecordBytes) # LitInfimum
       THEN [NoIndex EXCEPT !.err = "CorruptSystemRecord"]
     ELSE IF supHdr.res # "ok" THEN [NoIndex EXCEPT !.err = "Short"]
     ELSE IF Slice(p, supCur, supCur + SystemRecordBytes) # LitSupremum
       THEN [NoIndex EXCEPT !.err = "CorruptSystemRecord"]
     ELSE [ok |-> TRUE, err |-> "nil", Hdr |-> hdr,
           Infimum |-> [Header |-> infHdr.hdr, PrimaryKeyPos |-> infCur,
                        DataLen |-> SystemRecordBytes],
           Supremum |-> [Header |-> supHdr.hdr, PrimaryKeyPos |-> supCur,
                         DataLen |-> SystemRecordBytes],
           DirSlots |-> ReadDirSlots(p, hdr.NumDirSlots)]

\* ------------------------------------------------------- record walker
\* the loop condition of WalkRecordsFromData
LoopCondOffByOne(s, max) == s <= max

LoopCond(s, max) == s < max

\* the bounds test on the next record's content position
OutOfPageLoose(nextContent) ==
  nextContent < FilHeaderSize \/ nextContent >= PageSize

OutOfPage(nextContent) ==
  \/ nextContent < FilHeaderSize + PageHeaderSize
  \/ nextContent >= PageSize - FilTrailerSize

\* the length of the raw data slice the walker attaches to a record
WalkDataLen(p, hdr, nextContent) ==
  LET dataSize ==
        IF hdr.NextRecOffset > 0 /\ hdr.NextRecOffset > RecordHeaderSize
          THEN hdr.NextRecOffset - RecordHeaderSize
        ELSE IF hdr.Type = RecSupremum THEN 8
        ELSE IF 100 > p.len - nextContent THEN p.len - nextContent ELSE 100
  IN IF dataSize > 0 /\ nextContent + dataSize <= p.len THEN dataSize ELSE 0

\* One iteration of the loop of WalkRecordsFromData, from the current record c
\* with the output o: kind is "break", "error" or "continue".
WalkBody(p, c, o, skip) ==
  LET nextContent == NextRecordPos(c)
      nextHeaderPos == nextContent - RecordHeaderSize
      h == ParseRecordHeader(p, nextHeaderPos)
      rec == [Header |-> h.hdr, PrimaryKeyPos |-> nextContent,
              DataLen |-> WalkDataLen(p, h.hdr, nextContent)]
  IN IF c.Header.NextRecOffset = 0
       THEN [kind |-> "break", err |-> "nil", out |-> o, cur |-> c, read |-> FALSE]
     ELSE IF OutOfPage(nextContent)
       THEN [kind |-> "error", err |-> "OffsetOutOfPage", out |-> o, cur |-> c, read |-> FALSE]
     ELSE IF nextHeaderPos < 0
       THEN [kind |-> "error", err |-> "NegativeHeaderPos", out |-> o, cur |-> c, read |-> FALSE]
     ELSE IF h.res # "ok"
       THEN [kind |-> "error", err |-> h.res, out |-> o, cur |-> c, read |-> TRUE]
     ELSE IF rec.Header.Type = RecSupremum
       THEN [kind |-> "break", err |-> "nil",
             out |-> IF ~skip THEN Append(o, rec) ELSE o, cur |-> c, read |-> TRUE]
     ELSE [kind |-> "continue", err |-> "nil", out |-> Append(o, rec), cur |-> rec,
           read |-> TRUE]

\* ------------------------------------------------------ generated pages
\* f with the bytes of the sequence s written at position pos
Put(f, pos, s) ==
  [i \in (DOMAIN f) \cup (pos..(pos + Len(s) - 1)) |->
     IF i >= pos /\ i < pos + Len(s) THEN s[i - pos + 1] ELSE f[i]]

U16Bytes(v) == <<v \div 256, v % 256>>

\* the 5 header bytes of a record of the given type and next-record offset
EncodeHeader(type, next) ==
  <<0, 0, type>> \o U16Bytes((next + 65536) % 65536)

InfimumOrigin == FilHeaderSize + PageHeaderSize + RecordHeaderSize

SupremumOrigin == InfimumOrigin + SystemRecordBytes + RecordHeaderSize

UserOrigin(i) == 120 + 20 * i

\* the chains of user record slots: sequences without repetition
Chains ==
  UNION {{c \in [1..n -> 1..MaxUserRecs] : \A i, j \in 1..n : c[i] = c[j] => i = j}
         : n \in 0..MaxUserRecs}

\* the origins along a chain, INFIMUM first
OriginsOf(chain) == <<InfimumOrigin>> \o [i \in 1..Len(chain) |-> UserOrigin(chain[i])]

\* where the last record of the chain may point: SUPREMUM, the first position
\* outside and the last inside the allowed range on either side, or a record
\* of the chain (itself: offset 0; an earlier one: a cycle)
TermsOf(chain) ==
  {SupremumOrigin,
   FilHeaderSize + PageHeaderSize - 1, FilHeaderSize + PageHeaderSize,
   PageSize - FilTrailerSize - 1, PageSize - FilTrailerSize}
  \cup {OriginsOf(chain)[k] : k \in 1..(Len(chain) + 1)}

Defects == {"pagetype", "redundant", "infimum", "supremum"}

LastTypesOf(chain) ==
  IF chain = <<>> THEN {RecConventional}
  ELSE {RecConventional, RecInfimum, RecSupremum}

\* num_user_recs of a generated page: the number of linked user records, or
\* a value that disagrees with it
NRecsOf(chain) == {Len(chain), (Len(chain) + 1) % (MaxUserRecs + 1)}

\* num_dir_slots of a generated page: the two slots of an empty index, none,
\* one, three, and the first counts whose directory does not fit in the page
SlotCounts == {0, 1, 2, 3, 8188, 8189, 8190}

\* every chain with every ending and a sound envelope, every chain ending
\* at SUPREMUM with every combination of defects in what ParseIndexPage
\* checks, and the empty chain with every directory size
Shapes ==
  UNION {{[chain |-> c, term |-> t, lastType |-> lt, nrecs |-> n, defect |-> {},
           slots |-> 2] :
            t \in TermsOf(c), lt \in LastTypesOf(c), n \in NRecsOf(c)}
         \cup
         {[chain |-> c, term |-> SupremumOrigin, lastType |-> RecConventional,
           nrecs |-> Len(c), defect |-> d, slots |-> 2] : d \in (SUBSET Defects) \ {{}}}
         : c \in Chains}
  \cup
  {[chain |-> <<>>, term |-> SupremumOrigin, lastType |-> RecConventional,
    nrecs |-> 0, defect |-> {}, slots |-> n] : n \in SlotCounts}

RECURSIVE WriteChain(_, _, _, _, _)
WriteChain(f, R, k, term, lastType) ==
  IF k > Len(R) THEN f
  ELSE LET target == IF k < Len(R) THEN R[k + 1] ELSE term
           type == IF k = 1 THEN RecInfimum
                   ELSE IF k = Len(R) THEN lastType ELSE RecConventional
       IN WriteChain(Put(f, R[k] - RecordHeaderSize, EncodeHeader(type, target - R[k])),
                     R, k + 1, term, lastType)

\* the page of a shape: FIL page type, index header (num_dir_slots, the
\* compact flag, num_user_recs), the two system records, the chain, and at
\* the tail the directory entries of SUPREMUM and INFIMUM with one entry more
\* below them
BuildPage(s) ==
  LET f0 == Put(<<>>, 24,
                U16Bytes(IF "pagetype" \in s.defect THEN PageTypeUndoLog ELSE PageTypeIndex))
      f1 == Put(f0, FilHeaderSize, U16Bytes(s.slots))
      f2 == Put(f1, FilHeaderSize + 4,
                U16Bytes((IF "redundant" \in s.defect THEN 0 ELSE 32768) + 2 + Len(s.chain)))
      f3 == Put(f2, FilHeaderSize + 16, U16Bytes(s.nrecs))
      f4 == Put(f3, InfimumOrigin,
                IF "infimum" \in s.defect THEN [LitInfimum EXCEPT ![8] = 1] ELSE LitInfimum)
      f5 == Put(f4, SupremumOrigin - RecordHeaderSize, EncodeHeader(RecSupremum, 0))
      f6 == Put(f5, SupremumOrigin,
                IF "supremum" \in s.defect THEN [LitSupremum EXCEPT ![1] = 83] ELSE LitSupremum)
      f7 == WriteChain(f6, OriginsOf(s.chain), 1, s.term, s.lastType)
      f8 == Put(f7, PageSize - FilTrailerSize - 6,
                U16Bytes(PageSize - 1) \o U16Bytes(SupremumOrigin) \o U16Bytes(InfimumOrigin))
  IN [len |-> PageSize, bytes |-> f8]

\* ------------------------------------------------- compressed pages
LogicalPageSize == 16384

CompressedPageSizes == <<1024, 2048, 4096, 8192>>

FilPageTypeOffset == 24

IsCompressedPageSize(size) == \E k \in 1..Len(CompressedPageSizes) : CompressedPageSizes[k] = size

\* the first n bytes of a buffer in a zeroed buffer of LogicalPageSize bytes:
\* memset(dst, 0, logical) followed by memcpy(dst, src, n)
ZeroPaddedCopy(src, n) ==
  [len |-> LogicalPageSize,
   bytes |-> [i \in {j \in DOMAIN src.bytes : j < n} |-> src.bytes[i]]]

\* zip_shift_from_bytes
ZipShiftFromBytes(z) ==
  CASE z = 1024 -> 0
    [] z = 2048 -> 1
    [] z = 4096 -> 2
    [] z = 8192 -> 3
    [] z = 16384 -> 4
    [] OTHER -> 0

\* physical_size_to_ssize
PhysicalSizeToSsize(size) ==
  CASE size = 1024 -> 10
    [] size = 2048 -> 11
    [] size = 4096 -> 12
    [] size = 8192 -> 13
    [] size = 16384 -> 0
    [] OTHER -> 0

FilPageCompressed == 14

FilPageCompressedAndEncrypted == 16

\* is_valid_compressed_size
IsValidCompressedSize(size) == size \in {1024, 2048, 4096, 8192}

\* is_compressed_page_type
IsCompressedPageType(pageType) ==
  pageType = FilPageCompressed \/ pageType = FilPageCompressedAndEncrypted

\* innodb_decompress_page(compressed_data, compressed_size, output_buffer,
\* output_size, bytes_written) with non-null pointers: rc, *bytes_written,
\* the bytes written to output_buffer, and the ssize put in the descriptor if
\* the routine gets that far; low is what page_zip_decompress_low does.  The
\* malloc is taken to succeed.
InnodbDecompressPage(src, compressedSize, outputSize, low) ==
  LET pageType == ByteAt(src, FilPageTypeOffset) * 256 + ByteAt(src, FilPageTypeOffset + 1)
      min == IF compressedSize < outputSize THEN compressedSize ELSE outputSize
      ssize == PhysicalSizeToSsize(compressedSize)
      Fail(rc, derived) ==
        [rc |-> rc, written |-> 0, out |-> [len |-> 0, bytes |-> <<>>],
         derived |-> derived, ssize |-> IF derived THEN ssize ELSE 0]
  IN IF outputSize < LogicalPageSize THEN Fail(-4, FALSE)
     ELSE IF ~IsValidCompressedSize(compressedSize) THEN Fail(-1, FALSE)
     ELSE IF compressedSize < FilPageTypeOffset + 2 THEN Fail(-5, FALSE)
     ELSE IF pageType # PageTypeIndex
       THEN [rc |-> 0, written |-> min,
             out |-> [len |-> min,
                      bytes |-> [i \in {j \in DOMAIN src.bytes : j < min} |-> src.bytes[i]]],
             derived |-> FALSE, ssize |-> 0]
     ELSE IF ~low.ok THEN Fail(-3, TRUE)
     ELSE [rc |-> 0, written |-> LogicalPageSize, out |-> low.page,
           derived |-> TRUE, ssize |-> ssize]

\* a shim that hands every page type to the decompression routine
NeedsDecompressionAlways(pageType) == TRUE

\* the page-type test of innodb_zip_decompress
NeedsDecompression(pageType) == pageType = PageTypeIndex

\* What page_zip_decompress_low may do with a source page: fail, or fill the
\* logical page.  The library is outside the repository; its output is taken
\* to be a page that carries the FIL header of the source, with a trailer that
\* passes the envelope check or one that does not.
LowResults(src) ==
  {[ok |-> FALSE, page |-> ZeroPaddedCopy(src, 0)],
   [ok |-> TRUE, page |-> ZeroPaddedCopy(src, FilHeaderSize)],
   [ok |-> TRUE,
    page |-> [len |-> LogicalPageSize,
              bytes |-> Put(ZeroPaddedCopy(src, FilHeaderSize).bytes,
                            LogicalPageSize - 1, <<1>>)]]}

\* innodb_zip_decompress(src, physical, dst, logical) after its entry: rc, the
\* destination buffer, and whether page_zip_decompress_low was invoked; low
\* is what that routine does if it is.  The malloc of the temporary buffer
\* is taken to succeed.
InnodbZipDecompress(src, physical, logical, low) ==
  LET zeroed == ZeroPaddedCopy(src, 0)
      pageType == ByteAt(src, FilPageTypeOffset) * 256 + ByteAt(src, FilPageTypeOffset + 1)
      ssize == ZipShiftFromBytes(physical)
  IN IF logical # 16384 THEN [rc |-> -2, dst |-> zeroed, invoked |-> FALSE]
     ELSE IF physical >= logical
       THEN [rc |-> 0, dst |-> ZeroPaddedCopy(src, logical), invoked |-> FALSE]
     ELSE IF ~NeedsDecompression(pageType)
       THEN [rc |-> 0, dst |-> ZeroPaddedCopy(src, physical), invoked |-> FALSE]
     ELSE IF ssize > 4 THEN [rc |-> -3, dst |-> zeroed, invoked |-> FALSE]
     ELSE IF Pow2(10 + ssize) # physical THEN [rc |-> -4, dst |-> zeroed, invoked |-> FALSE]
     ELSE IF low.ok THEN [rc |-> 0, dst |-> low.page, invoked |-> TRUE]
     ELSE [rc |-> -4, dst |-> zeroed, invoked |-> TRUE]

\* the checks of DecompressPage in front of the call into the shim
DecompressPageCheck(src, physicalSize) ==
  IF ~IsCompressedPageSize(physicalSize) THEN "InvalidPhysicalSize"
  ELSE IF src.len < physicalSize THEN "SourceTooSmall"
  ELSE "nil"

\* the error DecompressPage makes of the shim's return code
ErrorOfRc(rc) ==
  CASE rc = 0 -> "nil"
    [] rc = -1 -> "InvalidParameters"
    [] rc = -2 -> "InvalidLogicalSize"
    [] rc = -3 -> "InvalidPhysicalSize"
    [] rc = -4 -> "DecompressionFailed"
    [] OTHER -> "UnknownError"

\* IsPageCompressed; innodb_is_page_compressed answers 0 from 16384 bytes on
IsPageCompressed(data) ==
  IF data.len < 38 THEN FALSE
  ELSE IF data.len < LogicalPageSize THEN TRUE
  ELSE FALSE

\* the sizes the loop of TryDecompressPage calls DecompressPage with, in order
SizesToTry(data) == SelectSeq(CompressedPageSizes, LAMBDA size : data.len >= size)

\* a reader that decompresses whatever its enableDecompression says
ShouldDecompressAlways(rd) == TRUE

\* the test of ReadPage in front of tryDecompress
ShouldDecompress(rd) == rd.enableDecompression

\* the number of bytes ReadPage reads
ReadSize(rd) ==
  IF rd.physicalPageSize > 0 /\ rd.physicalPageSize < PageSize
    THEN rd.physicalPageSize
    ELSE PageSize

\* NewCompressedPageReader
NewCompressedPageReader == [enableDecompression |-> TRUE, physicalPageSize |-> 0]

\* what a call returned: the buffer, wasCompressed and the error
ZipResult(buf, wasCompressed, err) == [buf |-> buf, wasCompressed |-> wasCompressed, err |-> err]

\* a goroutine that has not called anything yet
IdleThread ==
  [pc |-> "idle", op |-> "none", src |-> [len |-> 0, bytes |-> <<>>], sizes |-> <<>>,
   enabled |-> FALSE, shimCalls |-> 0, lowCalls |-> 0,
   res |-> ZipResult([len |-> 0, bytes |-> <<>>], FALSE, "none")]

\* What the caller of DecompressPage does with its result (buf, err): th is
\* the goroutine's call, whose src is the buffer it passed and whose sizes
\* start with the physical size it passed.
AfterDecompress(th, buf, err) ==
  CASE th.op = "DecompressPage" ->
         [th EXCEPT !.pc = "idle", !.res = ZipResult(buf, FALSE, err)]
    [] th.op = "ReadPage" ->
         LET data == IF err = "nil" THEN buf ELSE th.src
         IN [th EXCEPT !.pc = "idle",
                       !.res = ZipResult(data, err = "nil", NewInnerPage(data).err)]
    [] th.op = "TryDecompressPage" ->
         IF err = "nil"
           THEN [th EXCEPT !.pc = "idle", !.res = ZipResult(buf, TRUE, "nil")]
         ELSE IF Len(th.sizes) > 1
           THEN [th EXCEPT !.pc = "call", !.sizes = Tail(@)]
         ELSE [th EXCEPT !.pc = "idle", !.res = ZipResult(th.src, FALSE, "UnableToDecompress")]

\* ----------------------------------------------------- idle components
EmptyPage == [len |-> 0, bytes |-> <<>>]

IdleWalk ==
  /\ page = EmptyPage
  /\ pc = "idle"
  /\ idx = NoIndex
  /\ wmax = 0
  /\ wskip = FALSE
  /\ cur = NoRecord
  /\ steps = 0
  /\ out = <<>>
  /\ werr = "nil"
  /\ followed = 0

IdleFil ==
  /\ fbuf = EmptyPage
  /\ fpc = "idle"
  /\ fres = NoInner

NoColumnInput == [kind |-> "none"]

IdleCol ==
  /\ cin = NoColumnInput
  /\ cpc = "idle"
  /\ cres = Parsed(NilV, 0, "nil")
  /\ cskip = Skipped(0, "nil")

NoRecordInput == [kind |-> "none"]

NoParsedRecord == [kind |-> "none"]

IdleRec ==
  /\ rin = NoRecordInput
  /\ rpc = "idle"
  /\ rres = NoParsedRecord

Threads == {1, 2}

NoSetCall == [size |-> 0, err |-> "none"]

InitialGlobals == [logical |-> 16384, physical |-> 16384]

IdleZip ==
  /\ zrd = NewCompressedPageReader
  /\ zset = NoSetCall
  /\ zglob = InitialGlobals
  /\ zth = [t \in Threads |-> [IdleThread EXCEPT !.pc = "off"]]

\* a Values map that has not been created, and one holding m
NilMap == [isNil |-> TRUE, m |-> [n \in {} |-> NilV]]

MapOf(m) == [isNil |-> FALSE, m |-> m]

NoSetValue == [name |-> "", value |-> NilV]

NoGetValue == [name |-> "", value |-> NilV, exists |-> FALSE]

IdleGen ==
  /\ grec = [Values |-> NilMap]
  /\ gpc = "off"
  /\ glast = NoSetValue
  /\ gget = NoGetValue
  /\ gsets = 0

NoLibCall == [size |-> 0]

NoLibResult ==
  [rc |-> 0, written |-> 0, out |-> [len |-> 0, bytes |-> <<>>], derived |-> FALSE, ssize |-> 0]

IdleLib ==
  /\ lin = NoLibCall
  /\ lpc = "off"
  /\ lres = NoLibResult

IdleTab ==
  /\ ttd = NewTableDef
  /\ thist = <<>>
  /\ tkeys = <<>>
  /\ tlast = "off"
  /\ tbefore = NewTableDef

\* ------------------------------------------------- walker state machine
InitWalk ==
  /\ page = EmptyPage
  /\ pc = "start"
  /\ idx = NoIndex
  /\ wmax = 0
  /\ wskip = FALSE
  /\ cur = NoRecord
  /\ steps = 0
  /\ out = <<>>
  /\ werr = "nil"
  /\ followed = 0
  /\ IdleFil /\ IdleCol /\ IdleRec /\ IdleZip /\ IdleTab /\ IdleLib /\ IdleGen

\* PageReader.ReadPage: a page buffer arrives from the byte source
ReadPage ==
  /\ pc = "start"
  /\ page' \in {BuildPage(s) : s \in Shapes}
  /\ pc' = "raw"
  /\ UNCHANGED <<idx, wmax, wskip, cur, steps, out, werr, followed>>
  /\ UNCHANGED <<fvars, cvars, rvars, zvars, tvars, lvars, gvars>>

\* NewInnerPage then ParseIndexPage on the buffer
ParsePage ==
  /\ pc = "raw"
  /\ LET ip == NewInnerPage(page)
         ix == IF ip.ok THEN ParseIndexPage(ip) ELSE [NoIndex EXCEPT !.err = ip.err]
     IN /\ idx' = ix
        /\ werr' = ix.err
        /\ pc' = IF ix.ok THEN "parsed" ELSE "rejected"
  /\ UNCHANGED <<page, wmax, wskip, cur, steps, out, followed>>
  /\ UNCHANGED <<fvars, cvars, rvars, zvars, tvars, lvars, gvars>>

\* IndexPage.WalkRecords(max, skipSystem) up to the loop of WalkRecordsFromData
WalkBegin ==
  /\ pc = "parsed"
  /\ \E max \in 0..MaxSteps, skip \in BOOLEAN :
       /\ wmax' = max
       /\ wskip' = skip
       /\ IF idx.Hdr.Format # FormatCompact
            THEN /\ pc' = "done"
                 /\ werr' = "UnsupportedRedundantFormat"
                 /\ UNCHANGED <<cur, out>>
            ELSE /\ pc' = "loop"
                 /\ werr' = "nil"
                 /\ cur' = idx.Infimum
                 /\ out' = IF ~skip THEN <<idx.Infimum>> ELSE <<>>
  /\ steps' = 0
  /\ UNCHANGED <<page, idx, followed>>
  /\ UNCHANGED <<fvars, cvars, rvars, zvars, tvars, lvars, gvars>>

\* one iteration of the loop
WalkStep ==
  /\ pc = "loop"
  /\ LoopCond(steps, wmax)
  /\ LET b == WalkBody(page, cur, out, wskip)
     IN /\ out' = b.out
        /\ cur' = b.cur
        /\ werr' = b.err
        /\ followed' = IF b.read THEN followed + 1 ELSE followed
        /\ pc' = IF b.kind = "continue" THEN "loop" ELSE "done"
        /\ steps' = IF b.kind = "continue" THEN steps + 1 ELSE steps
  /\ UNCHANGED <<page, idx, wmax, wskip>>
  /\ UNCHANGED <<fvars, cvars, rvars, zvars, tvars, lvars, gvars>>

\* the loop condition fails: return out, nil
WalkExit ==
  /\ pc = "loop"
  /\ ~LoopCond(steps, wmax)
  /\ pc' = "done"
  /\ werr' = "nil"
  /\ UNCHANGED <<page, idx, wmax, wskip, cur, steps, out, followed>>
  /\ UNCHANGED <<fvars, cvars, rvars, zvars, tvars, lvars, gvars>>

NextWalk == ReadPage \/ ParsePage \/ WalkBegin \/ WalkStep \/ WalkExit

SpecWalk == InitWalk /\ [][NextWalk]_vars

\* ------------------------------------------------- walker: the claims
IsUserRecord(r) == r.Header.Type # RecInfimum /\ r.Header.Type # RecSupremum

UserRecordCount(o) == Cardinality({i \in 1..Len(o) : IsUserRecord(o[i])})

RevisitsARecord(o) ==
  \E i, j \in 1..Len(o) : i < j /\ o[i].PrimaryKeyPos = o[j].PrimaryKeyPos

\* C2: on every page, cyclic chains included, and for every max, a walk
\* dereferences at most max next-record links and then returns: the loop
\* counter never passes max, and every step of a walk in its loop (WalkStep
\* and WalkExit have no guard but the loop condition) either returns or
\* advances the counter.
C2_WalkTerminatesWithinMax ==
  /\ [](followed <= wmax /\ steps <= wmax)
  /\ [][pc = "loop" => (pc' = "done" \/ (steps' = steps + 1 /\ wmax' = wmax))]_wvars

\* C2 witness: a walk over a cyclic chain has returned after exactly max links.
C2_Witness_CycleCutAtMax ==
  /\ pc = "done"
  /\ wmax = MaxSteps
  /\ followed = wmax
  /\ RevisitsARecord(out)

\* C3: a walk whose chain has reached neither SUPREMUM nor a record with next
\* offset 0 after max steps returns an error (WalkTooLong), not a normal result.
C3_CapReturnsWalkTooLong ==
  (pc = "done" /\ steps = wmax /\ cur.Header.NextRecOffset # 0) => werr # "nil"

\* C4: a walk of an accepted INDEX page that completes without error emits
\* exactly num_user_recs user records.
C4_EmitsNumUserRecs ==
  (pc = "done" /\ werr = "nil") => UserRecordCount(out) = idx.Hdr.NumUserRecs

\* C5: a step whose next origin would fall outside [94, 16376) ends the walk
\* with OffsetOutOfPage, and every emitted record other than the starting
\* INFIMUM has its origin inside [94, 16376).
C5_NextOriginInsidePage ==
  /\ [][(/\ pc = "loop"
         /\ steps < wmax
         /\ cur.Header.NextRecOffset # 0
         /\ NextRecordPos(cur) \notin 94..16375)
        => (pc' = "done" /\ werr' = "OffsetOutOfPage" /\ out' = out)]_wvars
  /\ [](\A i \in 1..Len(out) :
          (i = 1 /\ ~wskip /\ out[i] = idx.Infimum)
          \/ out[i].PrimaryKeyPos \in 94..16375)

\* C5 witness: a walk that emitted user records ended with OffsetOutOfPage.
C5_Witness_OutOfPageAfterRecords ==
  /\ pc = "done"
  /\ werr = "OffsetOutOfPage"
  /\ UserRecordCount(out) >= 1


\* ------------------------------------------- the walk as a function
RECURSIVE WalkLoop(_, _, _, _, _, _)
\* the loop of WalkRecordsFromData from step s on
WalkLoop(p, c, o, s, max, skip) ==
  IF ~LoopCond(s, max)
  THEN [out |-> o, err |-> "nil"]
  ELSE LET b == WalkBody(p, c, o, skip)
       IN IF b.kind = "continue"
          THEN WalkLoop(p, b.cur, b.out, s + 1, max, skip)
          ELSE [out |-> b.out, err |-> b.err]

\* WalkRecordsFromData(pageNo, pageData, infimum, max, skipSystem)
WalkRecordsFromData(p, infimum, max, skip) ==
  WalkLoop(p, infimum, IF ~skip THEN <<infimum>> ELSE <<>>, 0, max, skip)

\* a record list with its INFIMUM- and SUPREMUM-typed records removed
WithoutSystemRecords(o) == SelectSeq(o, IsUserRecord)

\* the signed 16-bit next-record offset stored in the two bytes before an origin
StoredNextOffset(p, origin) ==
  LET u == ByteAt(p, origin - 2) * 256 + ByteAt(p, origin - 1)
  IN IF u >= 32768 THEN u - 65536 ELSE u

\* C11: with skip_system set the walk returns no INFIMUM or SUPREMUM typed
\* record, and its output is the output of the walk of the same page without
\* skip_system from which the INFIMUM and SUPREMUM typed records are removed.
C11_SkipSystemIsFilteredWalk ==
  (pc = "done" /\ wskip /\ werr # "UnsupportedRedundantFormat") =>
     /\ \A i \in 1..Len(out) : IsUserRecord(out[i])
     /\ out = WithoutSystemRecords(WalkRecordsFromData(page, idx.Infimum, wmax, FALSE).out)

\* C12: records are returned in traversal order: a step that stays inside the
\* page and reads a header moves to the origin that is the current origin plus
\* the sign-extended next offset stored before it, and appends that record
\* at the end of the output (a SUPREMUM ends the walk instead), so each
\* returned record follows its predecessor by that predecessor's offset.
C12_TraversalOrder ==
  /\ [][(/\ pc = "loop"
         /\ steps < wmax
         /\ StoredNextOffset(page, cur.PrimaryKeyPos) # 0
         /\ cur.PrimaryKeyPos + StoredNextOffset(page, cur.PrimaryKeyPos) \in 94..16375
         /\ ParseRecordHeader(page, cur.PrimaryKeyPos
                + StoredNextOffset(page, cur.PrimaryKeyPos) - RecordHeaderSize).res = "ok")
        => LET nxt == cur.PrimaryKeyPos + StoredNextOffset(page, cur.PrimaryKeyPos)
           IN \/ /\ pc' = "loop"
                 /\ cur'.PrimaryKeyPos = nxt
                 /\ out' = Append(out, cur')
              \/ /\ pc' = "done"
                 /\ werr' = "nil"
                 /\ wskip => out' = out
                 /\ ~wskip => (/\ Len(out') = Len(out) + 1
                               /\ out'[Len(out')].PrimaryKeyPos = nxt
                               /\ out'[Len(out')].Header.Type = RecSupremum)]_wvars
  /\ [](\A i \in 1..(Len(out) - 1) :
          out[i + 1].PrimaryKeyPos
            = out[i].PrimaryKeyPos + StoredNextOffset(page, out[i].PrimaryKeyPos))

\* C12 witness: a finished walk returned two user records of which the second
\* lies before the first in the page, reached through a negative offset.
C12_Witness_BackwardLink ==
  /\ pc = "done"
  /\ werr = "nil"
  /\ \E i \in 1..(Len(out) - 1) :
       /\ IsUserRecord(out[i])
       /\ IsUserRecord(out[i + 1])
       /\ out[i + 1].PrimaryKeyPos < out[i].PrimaryKeyPos

\* C13: a finished walk returns at most max records, whatever the page and
\* whichever value skip_system has.
C13_AtMostMaxRecords ==
  pc = "done" => Len(out) <= wmax


\* what the page bytes say about each condition ParseIndexPage tests
PageTypeIsIndex == ByteAt(page, 24) * 256 + ByteAt(page, 25) = 17855
CompactBitSet == ByteAt(page, 42) >= 128
InfimumLiteralAt99 ==
  [k \in 1..8 |-> ByteAt(page, 98 + k)] = <<105, 110, 102, 105, 109, 117, 109, 0>>
SupremumLiteralAt112 ==
  [k \in 1..8 |-> ByteAt(page, 111 + k)] = <<115, 117, 112, 114, 101, 109, 117, 109>>

LsnWords == {<<0, 0, 0, 0>>, <<0, 0, 0, 1>>, <<222, 173, 190, 239>>, <<222, 173, 190, 238>>}

\* the buffer lengths tried: empty, shorter than a trailer, one short, exact,
\* one long
BufLens == {0, FilTrailerSize - 1, PageSize - 1, PageSize, PageSize + 1}

\* f cut to the positions inside a buffer of length n
Clip(f, n) == [i \in {j \in DOMAIN f : j < n} |-> f[i]]

\* a buffer of length n with last_mod_lsn = hi:lo and trailer low32_lsn = tr
BuildEnvelope(n, hi, lo, tr) ==
  [len |-> n,
   bytes |-> Clip(Put(Put(<<>>, 16, hi \o lo), PageSize - 4, tr), n)]

InitFil ==
  /\ fbuf = EmptyPage
  /\ fpc = "start"
  /\ fres = NoInner
  /\ IdleWalk /\ IdleCol /\ IdleRec /\ IdleZip /\ IdleTab /\ IdleLib /\ IdleGen

\* a buffer arrives
FilRead ==
  /\ fpc = "start"
  /\ \E n \in BufLens, hi \in LsnWords, lo \in LsnWords, tr \in LsnWords :
       fbuf' = BuildEnvelope(n, hi, lo, tr)
  /\ fpc' = "read"
  /\ UNCHANGED fres
  /\ UNCHANGED <<wvars, cvars, rvars, zvars, tvars, lvars, gvars>>

\* NewInnerPage(pageNo, page)
FilNew ==
  /\ fpc = "read"
  /\ fres' = NewInnerPage(fbuf)
  /\ fpc' = "done"
  /\ UNCHANGED fbuf
  /\ UNCHANGED <<wvars, cvars, rvars, zvars, tvars, lvars, gvars>>

NextFil == FilRead \/ FilNew

SpecFil == InitFil /\ [][NextFil]_vars

\* ----------------------------------------------- envelope: the claims
\* the 4 bytes of the buffer at positions a .. a+3
Raw4(p, a) == <<ByteAt(p, a), ByteAt(p, a + 1), ByteAt(p, a + 2), ByteAt(p, a + 3)>>

SignedTypes == {"TINYINT", "SMALLINT", "MEDIUMINT", "INT", "BIGINT"}

\* the storage width of a signed integer type
TypeWidth(t) ==
  CASE t = "TINYINT" -> 1
    [] t = "SMALLINT" -> 2
    [] t = "MEDIUMINT" -> 3
    [] t = "INT" -> 4
    [] t = "BIGINT" -> 8

\* A w-byte signed integer x is written as its signed top byte and its w-1 low
\* bytes: x = top * 256^(w-1) + the low bytes read most significant first.
TopBytes == {-128, -1, 0, 1, 127}

LowPatterns(n) ==
  {[i \in 1..n |-> 0], [i \in 1..n |-> 255], [i \in 1..n |-> i],
   [i \in 1..n |-> IF i = n THEN 1 ELSE 0]}

SignedSamples(w) == [top : TopBytes, low : LowPatterns(w - 1)]

\* bigendian(x XOR 2^(8w-1)): the XOR flips the top bit of the top byte
EncodeSigned(x) == <<x.top + 128>> \o x.low

RECURSIVE BeValue(_)
BeValue(b) ==
  IF Len(b) = 0 THEN 0 ELSE BeValue(SubSeq(b, 1, Len(b) - 1)) * 256 + b[Len(b)]

\* x as the value a signed integer column of width w holds
ValueOfSigned(x, w) ==
  IF w = 8 THEN Int64V(x.top, x.low)
  ELSE IntV(x.top * Pow256(w - 1) + BeValue(x.low))

Years == {0, 1, 1999, 2024, 32767}

Months == {1, 2, 12}

Days == {1, 15, 31}

\* the 3 bytes of ((y << 9) | (m << 5) | d) XOR 0x800000, most significant first
EncodeDate(y, m, d) ==
  LET v == XorSignBit(y * 512 + m * 32 + d, 3)
  IN <<v \div 65536, (v \div 256) % 256, v % 256>>

\* DATETIME samples: year, month, day, hour, minute, second
DateTimeSamples ==
  [year : {1, 2024, 9999}, month : {1, 12}, day : {1, 31},
   hour : {0, 23}, minute : {0, 59}, second : {0, 59}]

\* the 5 bytes MySQL stores for a DATETIME, most significant first:
\* 1 << 39 | (year * 13 + month) << 22 | day << 17 | hour << 12 | minute << 6 | second
EncodeDateTime(x) ==
  LET ym == x.year * 13 + x.month
  IN <<128 + ym \div 1024, (ym \div 4) % 256,
       (ym % 4) * 64 + x.day * 2 + x.hour \div 16,
       (x.hour % 16) * 16 + x.minute \div 4, (x.minute % 4) * 64 + x.second>>

\* the column c of a date and time type with a fractional precision
TemporalColumn(type, precision) ==
  [Column("c", type, 0, FALSE, "") EXCEPT !.Precision = precision]

Precisions == 0..6

\* TIMESTAMP samples: the four bytes of the seconds, most significant first
TimestampSeconds == {<<0, 0, 0, 0>>, <<0, 0, 0, 1>>, <<101, 83, 241, 0>>, <<255, 255, 255, 255>>}

\* the bytes MySQL stores for a TIMESTAMP(precision): the seconds and
\* (precision + 1) / 2 bytes of fraction
EncodeTimestamp(secs, precision) == secs \o [i \in 1..((precision + 1) \div 2) |-> 16 + i]

ColumnOffsets == {0, 2}

\* a buffer holding the stored bytes at off, between filler bytes
ColumnBuffer(stored, off) ==
  [len |-> off + Len(stored) + 1,
   bytes |-> Put(Put(Put(<<>>, 0, [i \in 1..off |-> 170]), off, stored),
                 off + Len(stored), <<85>>)]

\* every supported type with either unsigned flag, without and with a
\* fractional precision, in a single-byte and a multi-byte character set
Descriptors ==
  {[Column("c", d[1], 3, FALSE, d[4]) EXCEPT !.Unsigned = d[2], !.Precision = d[3]]
     : d \in (IntTypes \cup StringTypes \cup DateTimeTypes) \X BOOLEAN \X {0, 3}
              \X {"latin1", "utf8mb4"}}

\* a column of each descriptor in a buffer of 16 bytes that end in spaces,
\* with the length the record header gave for it
DescriptorInputs ==
  {[kind |-> "descriptor", col |-> c, x |-> 0,
    buf |-> ColumnBuffer([i \in 1..16 |-> IF i > 12 THEN 32 ELSE 64 + i], 0), off |-> 0,
    varLen |-> n] : c \in Descriptors, n \in {0, 2}}

ColumnInputs ==
  UNION {
    {[kind |-> "int", col |-> Column("c", t, 0, FALSE, ""), x |-> x,
      buf |-> ColumnBuffer(EncodeSigned(x), o), off |-> o, varLen |-> 0]
       : x \in SignedSamples(TypeWidth(t)), o \in ColumnOffsets}
    : t \in SignedTypes}
  \cup
  {[kind |-> "date", col |-> Column("c", "DATE", 0, FALSE, ""),
    x |-> [y |-> ymd[1], m |-> ymd[2], d |-> ymd[3]],
    buf |-> ColumnBuffer(EncodeDate(ymd[1], ymd[2], ymd[3]), o), off |-> o,
    varLen |-> 0]
     : ymd \in Years \X Months \X Days, o \in ColumnOffsets}
  \cup
  {[kind |-> "datetime", col |-> Column("c", "DATETIME", 0, FALSE, ""), x |-> x,
    buf |-> ColumnBuffer(EncodeDateTime(x), o), off |-> o, varLen |-> 0]
     : x \in DateTimeSamples, o \in ColumnOffsets}
  \cup
  {[kind |-> "timestamp", col |-> TemporalColumn("TIMESTAMP", sp[2]), x |-> sp[1],
    buf |-> ColumnBuffer(EncodeTimestamp(sp[1], sp[2]), o), off |-> o, varLen |-> 0]
     : sp \in TimestampSeconds \X Precisions, o \in ColumnOffsets}
  \cup DescriptorInputs

\* ------------------------------------------------ column state machine
InitCol ==
  /\ cin = NoColumnInput
  /\ cpc = "start"
  /\ cres = Parsed(NilV, 0, "nil")
  /\ cskip = Skipped(0, "nil")
  /\ IdleWalk /\ IdleFil /\ IdleRec /\ IdleZip /\ IdleTab /\ IdleLib /\ IdleGen

\* a caller picks a column and the buffer holding its stored bytes
ColRead ==
  /\ cpc = "start"
  /\ \E i \in ColumnInputs : cin' = i
  /\ cpc' = "read"
  /\ UNCHANGED <<cres, cskip>>
  /\ UNCHANGED <<wvars, fvars, rvars, zvars, tvars, lvars, gvars>>

\* the caller runs ParseColumn on them
ColParse ==
  /\ cpc = "read"
  /\ cres' = ParseColumn(cin.buf, cin.off, cin.col, cin.varLen)
  /\ cpc' = "done"
  /\ UNCHANGED <<cin, cskip>>
  /\ UNCHANGED <<wvars, fvars, rvars, zvars, tvars, lvars, gvars>>

\* the caller runs SkipColumn on the same column and buffer
ColSkip ==
  /\ cpc = "done"
  /\ cskip' = SkipColumn(cin.buf, cin.off, cin.col, cin.varLen)
  /\ cpc' = "skipped"
  /\ UNCHANGED <<cin, cres>>
  /\ UNCHANGED <<wvars, fvars, rvars, zvars, tvars, lvars, gvars>>

NextCol == ColRead \/ ColParse \/ ColSkip

SpecCol == InitCol /\ [][NextCol]_vars

\* --------------------------------------------------- column: the claims
\* C8: for every width w in {1, 2, 3, 4, 8} and every signed x of that width,
\* decoding the w bytes bigendian(x XOR 2^(8w-1)) as a signed integer column
\* returns x and consumes w bytes; a MEDIUMINT is sign-extended, so the bytes
\* 7F FF FF decode to -1.
C8_SignedIntRoundTrip ==
  (cpc = "done" /\ cin.kind = "int") =>
     cres = Parsed(ValueOfSigned(cin.x, TypeWidth(cin.col.Type)),
                   TypeWidth(cin.col.Type), "nil")

\* C9: for every (y, m, d) in range, decoding as a DATE column the 3 bytes of
\* ((y << 9) | (m << 5) | d) XOR 0x800000 in big-endian order yields the date
\* of year y, month m and day d.
C9_DateRoundTrip ==
  (cpc = "done" /\ cin.kind = "date") =>
     cres = Parsed(StrV(FormatDate(cin.x.y, cin.x.m, cin.x.d)), 3, "nil")

\* ------------------------------------------------ record: the inputs
\* the column kinds the generated tables are made of
Palette ==
  <<Column("", "INT", 0, FALSE, ""),
    Column("", "VARCHAR", 10, FALSE, "latin1"),
    Column("", "VARCHAR", 10, TRUE, "latin1"),
    Column("", "VARCHAR", 100, TRUE, "utf8mb4")>>

ColumnName(i) == <<"c1", "c2", "c3", "c4", "c5", "c6">>[i]

\* a table shape: the palette entry of each column, the first one NOT NULL
TableShapes ==
  UNION {{sh \in [1..n -> 1..Len(Palette)] : ~Palette[sh[1]].Nullable} : n \in 1..MaxCols}

\* the number of leading NOT NULL columns: the primary key is a prefix of them
RECURSIVE LeadingNotNull(_, _)
LeadingNotNull(sh, i) ==
  IF i > Len(sh) \/ Palette[sh[i]].Nullable THEN 0 ELSE 1 + LeadingNotNull(sh, i + 1)

RECURSIVE AddColumns(_, _, _)
AddColumns(td, sh, i) ==
  IF i > Len(sh) THEN td
  ELSE AddColumns(AddColumn(td, [Palette[sh[i]] EXCEPT !.Name = ColumnName(i)]).td, sh, i + 1)

\* the table a caller builds with AddColumn and SetPrimaryKeys
BuildTable(sh, pkn) ==
  SetPrimaryKeys(AddColumns(NewTableDef, sh, 1), [i \in 1..pkn |-> ColumnName(i)]).td

\* A row of a table: which columns are NULL and which hold a long value.
Rows(td) ==
  {row \in [nulls : [1..Len(td.Columns) -> BOOLEAN], longs : [1..Len(td.Columns) -> BOOLEAN]] :
     \A i \in 1..Len(td.Columns) :
        /\ row.nulls[i] => td.Columns[i].Nullable
        /\ row.longs[i] => (td.Columns[i].Length > 10 /\ ~row.nulls[i])}

\* the stored length of column i of a row: each column has its own
StoredLen(td, row, i) ==
  IF ~IsVariableLength(td.Columns[i]) THEN 4
  ELSE IF row.longs[i] THEN 130 + i
  ELSE i + 1

\* the stored bytes of column i of a row
StoredBytes(td, row, i) ==
  IF ~IsVariableLength(td.Columns[i]) THEN <<128, 0, 0, i>>
  ELSE [j \in 1..StoredLen(td, row, i) |-> 64 + i]

\* the value column i of a row holds
StoredValue(td, row, i) ==
  IF row.nulls[i] THEN NilV
  ELSE IF ~IsVariableLength(td.Columns[i]) THEN IntV(i)
  ELSE StrV(StoredBytes(td, row, i))

\* the transaction id and the roll pointer of a clustered leaf record
SystemColumns == [j \in 1..13 |-> 224 + j]

\* the child page number that ends a node-pointer record
ChildPageNumber == <<0, 0, 0, 7>>

RECURSIVE Concat(_)
Concat(ss) == IF Len(ss) = 0 THEN <<>> ELSE Head(ss) \o Concat(Tail(ss))

\* the stored bytes of the non-NULL columns among cols, in that order
DataOf(td, row, cols) ==
  Concat([k \in 1..Len(cols) |->
            IF row.nulls[cols[k]] THEN <<>> ELSE StoredBytes(td, row, cols[k])])

\* the length bytes of one column, the byte nearest the record header first
LengthBytes(td, row, i) ==
  IF row.nulls[i] THEN <<>>
  ELSE IF StoredLen(td, row, i) > 127
    THEN <<128 + StoredLen(td, row, i) \div 256, StoredLen(td, row, i) % 256>>
  ELSE <<StoredLen(td, row, i)>>

Reverse(b) == [k \in 1..Len(b) |-> b[Len(b) + 1 - k]]

\* the NULL bitmap of a row: bit k mod 8 of byte k div 8 is the k-th nullable column
NullBitmapBytes(td, row) ==
  [b \in 1..NullBitmapSize(td) |->
     LET here == {k \in 1..Len(td.nullableColumns) : (k - 1) \div 8 = b - 1 /\ row.nulls[td.nullableColumns[k]]}
         RECURSIVE Sum(_)
         Sum(S) == IF S = {} THEN 0
                   ELSE LET k == CHOOSE x \in S : TRUE
                        IN Pow2((k - 1) % 8) + Sum(S \ {k})
     IN Sum(here)]

\* where the generated records have their origin
RecOrigin == RecordHeaderSize + 2 * MaxCols + 3

\* the length bytes in front of a record, the byte nearest the header first:
\* the columns are taken in forward order and a NULL column has none
LengthHeader(td, row, varColumns) ==
  Concat([k \in 1..Len(varColumns) |-> LengthBytes(td, row, varColumns[k])])

\* A well-formed record of a row at RecOrigin, in a buffer that ends with it:
\* [length bytes, reversed][NULL bitmap][5-byte header] origin [primary key]
\* [13 system bytes][other columns] on a leaf page, and
\* [length bytes of the key][5-byte header] origin [primary key][child page]
\* on an internal page.
BuildRecord(td, row, isLeaf) ==
  LET headerPos == RecOrigin - RecordHeaderSize
      bitmap == IF isLeaf /\ HasNullableColumn(td) THEN NullBitmapBytes(td, row) ELSE <<>>
      lens == LengthHeader(td, row,
                IF isLeaf THEN td.varLenColumns ELSE GetPrimaryKeyVarLenColumns(td))
      key == DataOf(td, row, td.primaryKeyColumns)
      data == IF isLeaf
                THEN key \o SystemColumns \o DataOf(td, row, NonPrimaryKeyColumns(td))
                ELSE key \o ChildPageNumber
      type == IF isLeaf THEN RecConventional ELSE RecNodePointer
      f1 == Put(<<>>, headerPos - Len(bitmap) - Len(lens), Reverse(lens))
      f2 == Put(f1, headerPos - Len(bitmap), bitmap)
      f3 == Put(f2, headerPos, EncodeHeader(type, 0))
      f4 == Put(f3, RecOrigin, data)
  IN [kind |-> "record", td |-> td, row |-> row, isLeaf |-> isLeaf,
      buf |-> [len |-> RecOrigin + Len(data), bytes |-> f4],
      cap |-> RecOrigin + Len(data), pos |-> RecOrigin,
      lengths |-> [k \in 1..Len(td.varLenColumns) |->
                     IF row.nulls[td.varLenColumns[k]] THEN 0
                     ELSE StoredLen(td, row, td.varLenColumns[k])],
      sysStart |-> RecOrigin + Len(key)]

RecordInputs ==
  UNION {
    UNION {
      {BuildRecord(BuildTable(sh, pkn), row, TRUE) : row \in Rows(BuildTable(sh, pkn))}
      \cup
      {BuildRecord(BuildTable(sh, pkn), row, FALSE) :
         row \in {r \in Rows(BuildTable(sh, pkn)) : \A i \in 1..Len(sh) : ~r.nulls[i]}}
      : pkn \in 1..LeadingNotNull(sh, 1)}
    : sh \in TableShapes}

\* tables whose primary key is not a prefix of their columns: (c1 VARCHAR,
\* c2 VARCHAR, c3 INT) with the key (c2) or (c2, c1), and (c1 VARCHAR,
\* c2 VARCHAR NULL, c3 VARCHAR) with the key (c3)
KeyPlacementTables ==
  {SetPrimaryKeys(AddColumns(NewTableDef, <<2, 2, 1>>, 1), <<"c2">>).td,
   SetPrimaryKeys(AddColumns(NewTableDef, <<2, 2, 1>>, 1), <<"c2", "c1">>).td,
   SetPrimaryKeys(AddColumns(NewTableDef, <<2, 3, 2>>, 1), <<"c3">>).td}

\* leaf records of those tables
KeyPlacementInputs ==
  UNION {{BuildRecord(td, row, TRUE) : row \in Rows(td)} : td \in KeyPlacementTables}

\* a system record header in front of RecOrigin, in buffers that end at, inside
\* or behind the 8 bytes of the system record, with and without spare capacity
SystemInputs ==
  {[kind |-> "system", td |-> BuildTable(<<1>>, 1), isLeaf |-> TRUE,
    buf |-> [len |-> RecOrigin + tail,
             bytes |-> Put(Put(<<>>, RecOrigin - RecordHeaderSize, EncodeHeader(type, 0)),
                           RecOrigin, IF type = RecInfimum THEN LitInfimum ELSE LitSupremum)],
    cap |-> RecOrigin + tail + spare, pos |-> RecOrigin]
     : type \in {RecInfimum, RecSupremum}, tail \in {0, 3, SystemRecordBytes},
       spare \in {0, SystemRecordBytes}}

\* header offsets in front of, inside and at the end of a short buffer
HeaderInputs ==
  {[kind |-> "header",
    buf |-> [len |-> n, bytes |-> Put(<<>>, 0, EncodeHeader(RecConventional, 20))],
    off |-> off]
     : n \in {0, 4, 5, 9}, off \in {-6, -1, 0, 4, 5}}

\* the column types no parser is registered for
UnsupportedTypes == {"DECIMAL", "NUMERIC", "FLOAT", "DOUBLE", "BIT", "ENUM", "SET", "JSON"}

\* a table (c1 INT NOT NULL, c2 t) whose primary key is its first pkn columns
UnsupportedTable(t, nullable, pkn) ==
  SetPrimaryKeys(
    AddColumn(AddColumn(NewTableDef, Column("c1", "INT", 0, FALSE, "")).td,
              Column("c2", t, 0, nullable, "")).td,
    [i \in 1..pkn |-> ColumnName(i)]).td

\* well-formed records of those tables, on leaf and on internal pages
UnsupportedInputs ==
  UNION {
    UNION {{BuildRecord(UnsupportedTable(t, FALSE, pkn), row, leaf) :
              row \in Rows(UnsupportedTable(t, FALSE, pkn)), leaf \in BOOLEAN}
           : pkn \in 1..2}
    \cup
    {BuildRecord(UnsupportedTable(t, TRUE, 1), row, TRUE) :
       row \in Rows(UnsupportedTable(t, TRUE, 1))}
    : t \in UnsupportedTypes}

\* a direct call of ParseColumn on a column of such a type
ColumnCallInputs ==
  {[kind |-> "column", col |-> Column("c", t, 0, nullable, ""),
    buf |-> ColumnBuffer(<<128, 0, 0, 1>>, o), off |-> o, varLen |-> vl]
     : t \in UnsupportedTypes, nullable \in BOOLEAN, o \in ColumnOffsets, vl \in {0, 4}}

\* a table (k INT NOT NULL primary key, n1 .. n8 INT NULL, n9 VARCHAR(10) NULL)
RECURSIVE AddNullables(_, _)
AddNullables(td, i) ==
  IF i > 9 THEN td
  ELSE AddNullables(
         AddColumn(td, IF i < 9
                         THEN Column(<<"n1", "n2", "n3", "n4", "n5", "n6", "n7", "n8">>[i],
                                     "INT", 0, TRUE, "")
                         ELSE Column("n9", "VARCHAR", 10, TRUE, "latin1")).td,
         i + 1)

NineNullableTable ==
  SetPrimaryKeys(AddNullables(AddColumn(NewTableDef, Column("k", "INT", 0, FALSE, "")).td, 1),
                 <<"k">>).td

\* its rows: none NULL, all NULL, only the first, only the eighth, only the
\* ninth, and the first with the ninth
NineNullableRows ==
  {[nulls |-> [i \in 1..10 |-> i - 1 \in S], longs |-> [i \in 1..10 |-> FALSE]] :
     S \in {{}, 1..9, {1}, {8}, {9}, {1, 9}}}

\* leaf records of that table: their NULL bitmap has two bytes
BitmapInputs == {BuildRecord(NineNullableTable, row, TRUE) : row \in NineNullableRows}

\* the variable-length columns whose length header is probed: widths at and
\* above 255 bytes in each charset, a multi-byte CHAR, a VARBINARY and a TEXT
LengthKinds ==
  {Column("a", "VARCHAR", 255, FALSE, "latin1"), Column("a", "VARCHAR", 256, FALSE, "latin1"),
   Column("a", "VARCHAR", 63, FALSE, "utf8mb4"), Column("a", "VARCHAR", 64, FALSE, "utf8mb4"),
   Column("a", "VARCHAR", 85, FALSE, "utf8"), Column("a", "VARCHAR", 86, FALSE, "utf8"),
   Column("a", "CHAR", 100, FALSE, "utf8mb4"), Column("a", "VARBINARY", 300, FALSE, ""),
   Column("a", "TEXT", 65535, FALSE, "latin1")}

\* the byte nearest the record header: small, 127, 128, high bit with a
\* non-zero high part, and high bit together with bit 6
FirstBytes == {5, 127, 128, 129, 193}

\* the declared maximum byte width of a column
DeclaredWidth(col) ==
  IF col.Charset = "utf8mb4" THEN col.Length * 4
  ELSE IF col.Charset = "utf8" THEN col.Length * 3
  ELSE col.Length

\* what the length header of a column says, read as the format lays it out
StoredLength(col, first, second) ==
  LET two == DeclaredWidth(col) > 255 /\ first >= 128
  IN [bytes |-> IF two THEN 2 ELSE 1,
      overflow |-> two /\ (first \div 64) % 2 = 1,
      length |-> IF two THEN (first % 64) * 256 + second ELSE first]

\* A leaf record of the table (a <kind>, b VARCHAR(10)) without primary key:
\* a's length header starts with first and has the byte 2 behind it, b's
\* length byte 3 follows a's header, and the data holds a's and b's bytes.
LengthRecord(col, first) ==
  LET td == AddColumn(AddColumn(NewTableDef, col).td,
                      Column("b", "VARCHAR", 10, FALSE, "latin1")).td
      headerPos == RecOrigin - RecordHeaderSize
      sl == StoredLength(col, first, 2)
      lenA == IF sl.overflow THEN 0 ELSE sl.length
      f1 == Put(<<>>, headerPos - 3, <<77, 2, first>>)
      f2 == Put(f1, headerPos - 1 - sl.bytes, <<3>>)
      f3 == Put(f2, headerPos, EncodeHeader(RecConventional, 0))
      f4 == Put(f3, RecOrigin, SystemColumns \o [j \in 1..lenA |-> 65] \o <<66, 66, 66>>)
  IN [kind |-> "lengths", td |-> td, isLeaf |-> TRUE, col |-> col, first |-> first,
      buf |-> [len |-> RecOrigin + 13 + lenA + 3, bytes |-> f4],
      cap |-> RecOrigin + 13 + lenA + 3, pos |-> RecOrigin]

LengthInputs == {LengthRecord(col, first) : col \in LengthKinds, first \in FirstBytes}

\* ------------------------------------------------ record state machine
InitRec ==
  /\ rin = NoRecordInput
  /\ rpc = "start"
  /\ rres = NoParsedRecord
  /\ IdleWalk /\ IdleFil /\ IdleCol /\ IdleZip /\ IdleTab /\ IdleLib /\ IdleGen

\* a caller holds a table, a buffer and a record position
RecRead ==
  /\ rpc = "start"
  /\ \E i \in RecordInputs \cup SystemInputs \cup HeaderInputs
              \cup UnsupportedInputs \cup ColumnCallInputs \cup LengthInputs
              \cup BitmapInputs \cup KeyPlacementInputs : rin' = i
  /\ rpc' = "read"
  /\ UNCHANGED rres
  /\ UNCHANGED <<wvars, fvars, cvars, zvars, tvars, lvars, gvars>>

\* NewCompactParser(td).ParseRecord(buf, pos, isLeaf)
RecParse ==
  /\ rpc = "read"
  /\ rin.kind \in {"record", "system", "lengths"}
  /\ rres' = ParseRecord(rin.td, rin.buf, rin.cap, rin.pos, rin.isLeaf)
  /\ rpc' = "done"
  /\ UNCHANGED rin
  /\ UNCHANGED <<wvars, fvars, cvars, zvars, tvars, lvars, gvars>>

\* ParseRecordHeader(buf, off)
HeaderParse ==
  /\ rpc = "read"
  /\ rin.kind = "header"
  /\ rres' = [kind |-> "header", res |-> ParseRecordHeader(rin.buf, rin.off).res,
               Header |-> ParseRecordHeader(rin.buf, rin.off).hdr, overread |-> FALSE]
  /\ rpc' = "done"
  /\ UNCHANGED rin
  /\ UNCHANGED <<wvars, fvars, cvars, zvars, tvars, lvars, gvars>>

\* column.ParseColumn(buf, off, col, varLen) called on its own
ColumnCall ==
  /\ rpc = "read"
  /\ rin.kind = "column"
  /\ rres' = [kind |-> "column", res |-> "ok", overread |-> FALSE,
               parsed |-> ParseColumn(rin.buf, rin.off, rin.col, rin.varLen)]
  /\ rpc' = "done"
  /\ UNCHANGED rin
  /\ UNCHANGED <<wvars, fvars, cvars, zvars, tvars, lvars, gvars>>

NextRec == RecRead \/ RecParse \/ HeaderParse \/ ColumnCall

SpecRec == InitRec /\ [][NextRec]_vars

\* --------------------------------------------------- record: the claims
\* C1: for every table and every leaf record with k variable-length columns,
\* the lengths vector ParseRecord reconstructs has exactly k entries, and
\* entry i is the stored length of the i-th variable-length column in forward
\* schema order, 0 for a column that is NULL.
C1_LengthsInForwardColumnOrder ==
  (rpc = "done" /\ rin.kind = "record" /\ rin.isLeaf) =>
     /\ Len(rres.varLengths) = Len(rin.td.varLenColumns)
     /\ \A i \in 1..Len(rin.td.varLenColumns) : rres.varLengths[i] = rin.lengths[i]

\* C7: whatever the buffer, the position and the table, ParseRecordHeader and
\* ParseRecord never read outside [0, len(buffer)) and never panic: a
\* position that cannot be read in full is a returned error.
C7_NoReadOutsideBuffer ==
  rpc = "done" => (rres.res # "panic" /\ ~rres.overread)

\* C10: on a leaf record of a table with a primary key, ParseRecord skips
\* exactly the 13 system bytes that lie between the last primary-key column
\* and the first other column, and no decoded column is read from them; on an
\* internal record nothing is skipped.
C10_SkipsThirteenSystemBytes ==
  (rpc = "done" /\ rin.kind = "record" /\ rres.res = "ok") =>
     IF rin.isLeaf
       THEN /\ rres.pkEnd = rin.sysStart
            /\ rres.nonPkStart = rres.pkEnd + 13
            /\ \A k \in 1..Len(rres.spans) :
                  \/ rres.spans[k].to <= rin.sysStart
                  \/ rres.spans[k].from >= rin.sysStart + 13
       ELSE rres.nonPkStart = rres.pkEnd

\* C15: ParseColumn on a DECIMAL, NUMERIC, FLOAT, DOUBLE, BIT, ENUM, SET or
\* JSON column returns the unsupported-type error with a nil value and zero
\* bytes consumed, and ParseRecord on a record in which such a column is not
\* NULL returns that error and no record.
C15_UnsupportedTypesFailCleanly ==
  /\ (rpc = "done" /\ rin.kind = "column" /\ rin.col.Type \in UnsupportedTypes) =>
        rres.parsed = [val |-> NilV, n |-> 0, err |-> "ErrUnsupportedType"]
  /\ (/\ rpc = "done"
      /\ rin.kind = "record"
      /\ \E i \in 1..Len(rin.td.Columns) :
           rin.td.Columns[i].Type \in UnsupportedTypes /\ ~rin.row.nulls[i])
       => /\ rres.res = "error"
          /\ rres.err = "ErrUnsupportedType"
          /\ DOMAIN rres.Values = {}

\* C15 witness: ParseRecord decoded the INT key of a leaf record, reached a JSON
\* column that is not NULL and returned the unsupported-type error.
C15_Witness_JsonColumnReached ==
  /\ rpc = "done"
  /\ rin.kind = "record"
  /\ rin.isLeaf
  /\ Len(rin.td.Columns) = 2
  /\ rin.td.Columns[2].Type = "JSON"
  /\ ~rin.row.nulls[2]
  /\ Len(rres.spans) = 1
  /\ rres.err = "ErrUnsupportedType"


\* ------------------------------------------ compressed pages: the inputs
ZipTypes == {PageTypeIndex, PageTypeUndoLog}

\* a buffer of n bytes with a page type, and non-zero bytes at its start, at
\* offset 1024 and at its end
ZipBuffer(n, type) ==
  LET f0 == Put(<<>>, 0, <<9>>)
      f1 == IF n >= 26 THEN Put(f0, FilPageTypeOffset, U16Bytes(type)) ELSE f0
      f2 == IF n > 1025 THEN Put(f1, 1024, <<5>>) ELSE f1
  IN [len |-> n, bytes |-> Put(f2, n - 1, <<7>>)]

\* the calls of DecompressPage: a buffer of each physical size with that
\* size, a full page with 16384, a buffer longer than the size passed, one
\* shorter, and a size that is no page size
DecompressInputs ==
  {[src |-> ZipBuffer(n, ty), physicalSize |-> n] :
     n \in {1024, 2048, 4096, 8192, 16384}, ty \in ZipTypes}
  \cup {[src |-> ZipBuffer(8192, ty), physicalSize |-> 1024] : ty \in ZipTypes}
  \cup {[src |-> ZipBuffer(1024, PageTypeUndoLog), physicalSize |-> 2048],
        [src |-> ZipBuffer(1024, PageTypeUndoLog), physicalSize |-> 512]}

\* the second goroutine decompresses 4 KiB pages only
DecompressInputsOf(t) ==
  IF t = 1 THEN DecompressInputs ELSE {i \in DecompressInputs : i.physicalSize = 4096}

TryInputs == {ZipBuffer(n, ty) : n \in {20, 100, 2048, 16384}, ty \in ZipTypes}

SizesChosen == {0, 512, 1024, 2048, 4096, 8192, 16384}

\* ------------------------------------- compressed pages: state machine
InitZip ==
  /\ zrd = NewCompressedPageReader
  /\ zset = NoSetCall
  /\ zglob = InitialGlobals
  /\ zth = [t \in Threads |-> IdleThread]
  /\ IdleWalk /\ IdleFil /\ IdleCol /\ IdleRec /\ IdleTab /\ IdleLib /\ IdleGen

\* CompressedPageReader.SetPhysicalPageSize(size)
SetPhysicalPageSize ==
  /\ \E size \in SizesChosen :
       IF ~IsCompressedPageSize(size) /\ size # 0
         THEN /\ zset' = [size |-> size, err |-> "InvalidPhysicalSize"]
              /\ UNCHANGED zrd
         ELSE /\ zset' = [size |-> size, err |-> "nil"]
              /\ zrd' = [zrd EXCEPT !.physicalPageSize = size]
  /\ UNCHANGED <<zglob, zth>>
  /\ UNCHANGED <<wvars, fvars, cvars, rvars, tvars, lvars, gvars>>

\* CompressedPageReader.DisableDecompression
DisableDecompression ==
  /\ zrd' = [zrd EXCEPT !.enableDecompression = FALSE]
  /\ UNCHANGED <<zset, zglob, zth>>
  /\ UNCHANGED <<wvars, fvars, cvars, rvars, tvars, lvars, gvars>>

\* CompressedPageReader.EnableDecompression
EnableDecompression ==
  /\ zrd' = [zrd EXCEPT !.enableDecompression = TRUE]
  /\ UNCHANGED <<zset, zglob, zth>>
  /\ UNCHANGED <<wvars, fvars, cvars, rvars, tvars, lvars, gvars>>

\* a goroutine calls DecompressPage(src, physicalSize)
DecompressStart ==
  /\ \E t \in Threads : \E i \in DecompressInputsOf(t) :
       /\ zth[t].pc = "idle"
       /\ zth' = [zth EXCEPT ![t] = [IdleThread EXCEPT !.pc = "call", !.op = "DecompressPage",
                                                       !.src = i.src,
                                                       !.sizes = <<i.physicalSize>>]]
  /\ UNCHANGED <<zrd, zset, zglob>>
  /\ UNCHANGED <<wvars, fvars, cvars, rvars, tvars, lvars, gvars>>

\* the first goroutine calls TryDecompressPage(data), up to its first call of
\* DecompressPage
TryStart ==
  /\ zth[1].pc = "idle"
  /\ \E data \in TryInputs :
       LET th == [IdleThread EXCEPT !.op = "TryDecompressPage", !.src = data]
       IN zth' = [zth EXCEPT ![1] =
            IF data.len = LogicalPageSize \/ ~IsPageCompressed(data)
              THEN [th EXCEPT !.res = ZipResult(data, FALSE, "nil")]
            ELSE IF SizesToTry(data) = <<>>
              THEN [th EXCEPT !.res = ZipResult(data, FALSE, "UnableToDecompress")]
            ELSE [th EXCEPT !.pc = "call", !.sizes = SizesToTry(data)]]
  /\ UNCHANGED <<zrd, zset, zglob>>
  /\ UNCHANGED <<wvars, fvars, cvars, rvars, tvars, lvars, gvars>>

\* the first goroutine calls CompressedPageReader.ReadPage, up to the call of
\* DecompressPage if there is one: ReadAt fails or fills a buffer of
\* ReadSize bytes
ReadStart ==
  /\ zth[1].pc = "idle"
  /\ \E readOk \in BOOLEAN, ty \in ZipTypes :
       LET buf == ZipBuffer(ReadSize(zrd), ty)
           th == [IdleThread EXCEPT !.op = "ReadPage", !.src = buf,
                                    !.enabled = zrd.enableDecompression]
       IN zth' = [zth EXCEPT ![1] =
            IF ~readOk
              THEN [th EXCEPT !.res = ZipResult([len |-> 0, bytes |-> <<>>], FALSE, "ReadFailed")]
            ELSE IF ~ShouldDecompress(zrd)
              THEN [th EXCEPT !.res = ZipResult(buf, FALSE, NewInnerPage(buf).err)]
            ELSE IF /\ zrd.physicalPageSize > 0
                    /\ zrd.physicalPageSize < PageSize
                    /\ buf.len = zrd.physicalPageSize
              THEN [th EXCEPT !.pc = "call", !.sizes = <<zrd.physicalPageSize>>]
            ELSE IF buf.len = LogicalPageSize \/ ~IsPageCompressed(buf)
              THEN [th EXCEPT !.res = ZipResult(buf, FALSE, NewInnerPage(buf).err)]
            ELSE IF SizesToTry(buf) = <<>>
              THEN [th EXCEPT !.res = ZipResult(buf, FALSE, NewInnerPage(buf).err)]
            ELSE [th EXCEPT !.op = "TryDecompressPage", !.pc = "call",
                            !.sizes = SizesToTry(buf)]]
  /\ UNCHANGED <<zrd, zset, zglob>>
  /\ UNCHANGED <<wvars, fvars, cvars, rvars, tvars, lvars, gvars>>

\* DecompressPage up to and into innodb_zip_decompress: its checks, then the
\* entry of the shim, which writes the page-size globals
DecompressPageEnter ==
  /\ \E t \in Threads :
       /\ zth[t].pc = "call"
       /\ LET physicalSize == Head(zth[t].sizes)
              chk == DecompressPageCheck(zth[t].src, physicalSize)
          IN IF chk # "nil"
               THEN /\ zth' = [zth EXCEPT ![t] =
                                 AfterDecompress(@, [len |-> 0, bytes |-> <<>>], chk)]
                    /\ UNCHANGED zglob
               ELSE /\ zth' = [zth EXCEPT ![t].pc = "shim", ![t].shimCalls = @ + 1]
                    /\ zglob' = [logical |-> LogicalPageSize, physical |-> physicalSize]
  /\ UNCHANGED <<zrd, zset>>
  /\ UNCHANGED <<wvars, fvars, cvars, rvars, tvars, lvars, gvars>>

\* the rest of innodb_zip_decompress and of DecompressPage, and what the caller
\* does with the result
DecompressPageReturn ==
  /\ \E t \in Threads :
       /\ zth[t].pc = "shim"
       /\ \E low \in LowResults(zth[t].src) :
            LET r == InnodbZipDecompress(zth[t].src, Head(zth[t].sizes), LogicalPageSize, low)
                th == [zth[t] EXCEPT !.lowCalls = IF r.invoked THEN @ + 1 ELSE @]
            IN zth' = [zth EXCEPT ![t] =
                 AfterDecompress(th, IF r.rc = 0 THEN r.dst ELSE [len |-> 0, bytes |-> <<>>],
                                 ErrorOfRc(r.rc))]
  /\ UNCHANGED <<zrd, zset, zglob>>
  /\ UNCHANGED <<wvars, fvars, cvars, rvars, tvars, lvars, gvars>>

NextZip ==
  \/ SetPhysicalPageSize \/ DisableDecompression \/ EnableDecompression
  \/ DecompressStart \/ TryStart \/ ReadStart
  \/ DecompressPageEnter \/ DecompressPageReturn

SpecZip == InitZip /\ [][NextZip]_vars

\* ---------------------------------------- compressed pages: the claims
\* the big-endian page type at offset 24 of a buffer
PageTypeAt24(b) == ByteAt(b, 24) * 256 + ByteAt(b, 25)

\* dst is a 16384-byte buffer whose first n bytes are those of src and whose
\* other bytes are zero
IsZeroPaddedPrefix(dst, src, n) ==
  /\ dst.len = 16384
  /\ \A i \in (DOMAIN src.bytes) \cup (DOMAIN dst.bytes) :
        ByteAt(dst, i) = IF i < n THEN ByteAt(src, i) ELSE 0

\* C16: 16384 is a physical page size the compressed-page path accepts, and
\* with it the path is the identity: SetPhysicalPageSize(16384) succeeds and
\* selects it, and DecompressPage on a 16384-byte page with physical size
\* 16384 succeeds and returns a page equal to its input byte for byte.
C16_FullSizeIsIdentity ==
  /\ zset.size = 16384 => (zset.err = "nil" /\ zrd.physicalPageSize = 16384)
  /\ \A t \in Threads :
       (/\ zth[t].op = "DecompressPage"
        /\ zth[t].pc = "idle"
        /\ zth[t].sizes = <<16384>>
        /\ zth[t].src.len = 16384)
         => /\ zth[t].res.err = "nil"
            /\ IsZeroPaddedPrefix(zth[t].res.buf, zth[t].src, 16384)

\* C17: DecompressPage on a physical buffer with a size P of 1024, 2048, 4096
\* or 8192: if the page type at offset 24 is not INDEX, it returns a
\* 16384-byte buffer whose first P bytes are the input's and whose other bytes
\* are zero, and page_zip_decompress_low is not invoked; if the type is INDEX,
\* page_zip_decompress_low is invoked.
C17_NonIndexCopiedIndexDecompressed ==
  \A t \in Threads :
    (/\ zth[t].op = "DecompressPage"
     /\ zth[t].pc = "idle"
     /\ Head(zth[t].sizes) \in {1024, 2048, 4096, 8192}
     /\ zth[t].src.len >= Head(zth[t].sizes))
      => IF PageTypeAt24(zth[t].src) # 17855
           THEN /\ zth[t].res.err = "nil"
                /\ IsZeroPaddedPrefix(zth[t].res.buf, zth[t].src, Head(zth[t].sizes))
                /\ zth[t].lowCalls = 0
           ELSE zth[t].lowCalls = 1

\* C17 witness: a buffer of 8192 bytes that is no INDEX page came back as a
\* logical page that ends in zeros behind the copied bytes.
C17_Witness_NonIndexPadded ==
  \E t \in Threads :
    /\ zth[t].op = "DecompressPage"
    /\ zth[t].pc = "idle"
    /\ zth[t].sizes = <<8192>>
    /\ zth[t].src.len = 8192
    /\ PageTypeAt24(zth[t].src) # 17855
    /\ zth[t].res.err = "nil"
    /\ ByteAt(zth[t].res.buf, 8191) = 7
    /\ zth[t].lowCalls = 0

\* C18: a ReadPage that finds decompression disabled and reads fewer than
\* 16384 bytes returns an error without entering the shim, whatever calls of
\* EnableDecompression, DisableDecompression and SetPhysicalPageSize came
\* before it.
C18_DisabledReadFailsWithoutShim ==
  (/\ zth[1].op = "ReadPage"
   /\ ~zth[1].enabled
   /\ zth[1].src.len < 16384)
    => /\ zth[1].pc = "idle"
       /\ zth[1].res.err \notin {"nil", "none"}
       /\ zth[1].shimCalls = 0
       /\ zth[1].lowCalls = 0

\* C18 witness: after SetPhysicalPageSize(8192) and DisableDecompression a
\* ReadPage read 8192 bytes and returned the short-page error.
C18_Witness_DisabledShortRead ==
  /\ zth[1].op = "ReadPage"
  /\ zth[1].pc = "idle"
  /\ ~zth[1].enabled
  /\ zth[1].src.len = 8192
  /\ zset = [size |-> 8192, err |-> "nil"]
  /\ zth[1].res.err = "ShortPage"

\* C19: no two goroutines are inside innodb_zip_decompress at the same time.
C19_ShimCallsSerialized ==
  Cardinality({t \in Threads : zth[t].pc = "shim"}) <= 1

\* ------------------------------------------------ values state machine
\* GenericRecord.GetValue: (value, exists)
GetValue(r, columnName) ==
  IF r.Values.isNil THEN [value |-> NilV, exists |-> FALSE]
  ELSE IF columnName \in DOMAIN r.Values.m
    THEN [value |-> r.Values.m[columnName], exists |-> TRUE]
  ELSE [value |-> NilV, exists |-> FALSE]

\* GenericRecord.SetValue, seen from the caller: the method has a value
\* receiver, so it works on a copy of the caller's record.  A map the copy
\* shares with the caller takes the entry; a map made inside the method is
\* assigned to the copy only.
SetValue(r, columnName, value) ==
  IF r.Values.isNil THEN r
  ELSE [r EXCEPT !.Values = MapOf((columnName :> value) @@ r.Values.m)]

MaxSets == 2

GenNames == {"a", "b", "c"}

GenValues == {IntV(1), IntV(2), NilV}

\* the records a caller holds: one whose Values was never created (as
\* WalkRecords returns them), one with an empty map and one with a decoded
\* column (as ParseRecord returns them)
GenRecords == {[Values |-> NilMap], [Values |-> MapOf([n \in {} |-> NilV])],
               [Values |-> MapOf([n \in {"a"} |-> IntV(1)])]}

InitGen ==
  /\ grec = [Values |-> NilMap]
  /\ gpc = "start"
  /\ glast = NoSetValue
  /\ gget = NoGetValue
  /\ gsets = 0
  /\ IdleWalk /\ IdleFil /\ IdleCol /\ IdleRec /\ IdleZip /\ IdleTab /\ IdleLib

\* a caller gets a record from WalkRecords or from ParseRecord
RecordMade ==
  /\ gpc = "start"
  /\ \E r \in GenRecords : grec' = r
  /\ gpc' = "made"
  /\ UNCHANGED <<glast, gget, gsets>>
  /\ UNCHANGED <<wvars, fvars, cvars, rvars, zvars, tvars, lvars>>

\* r.SetValue(name, v)
SetValueCall ==
  /\ gpc \in {"made", "set", "got"}
  /\ gsets < MaxSets
  /\ \E name \in GenNames, v \in GenValues :
       /\ grec' = SetValue(grec, name, v)
       /\ glast' = [name |-> name, value |-> v]
  /\ gpc' = "set"
  /\ gsets' = gsets + 1
  /\ UNCHANGED gget
  /\ UNCHANGED <<wvars, fvars, cvars, rvars, zvars, tvars, lvars>>

\* r.GetValue(name)
GetValueCall ==
  /\ gpc \in {"made", "set"}
  /\ \E name \in GenNames :
       gget' = [name |-> name, value |-> GetValue(grec, name).value,
                exists |-> GetValue(grec, name).exists]
  /\ gpc' = "got"
  /\ UNCHANGED <<grec, glast, gsets>>
  /\ UNCHANGED <<wvars, fvars, cvars, rvars, zvars, tvars, lvars>>

NextGen == RecordMade \/ SetValueCall \/ GetValueCall

SpecGen == InitGen /\ [][NextGen]_vars

\* ----------------------------------------------- library state machine
LibSizes == {512, 1024, 2048, 4096, 8192, 16384}

LibOutputSizes == {8192, 16384, 32768}

LibTypes == {PageTypeIndex, PageTypeUndoLog, FilPageCompressed}

LibInputs ==
  {[src |-> ZipBuffer(z[1], z[3]), size |-> z[1], outputSize |-> z[2]]
     : z \in LibSizes \X LibOutputSizes \X LibTypes}

InitLib ==
  /\ lin = NoLibCall
  /\ lpc = "start"
  /\ lres = NoLibResult
  /\ IdleWalk /\ IdleFil /\ IdleCol /\ IdleRec /\ IdleZip /\ IdleTab /\ IdleGen

\* a C caller picks a buffer and its sizes
LibCall ==
  /\ lpc = "start"
  /\ \E i \in LibInputs : lin' = i
  /\ lpc' = "call"
  /\ UNCHANGED lres
  /\ UNCHANGED <<wvars, fvars, cvars, rvars, zvars, tvars, gvars>>

\* innodb_decompress_page runs
LibDecompressPage ==
  /\ lpc = "call"
  /\ \E low \in LowResults(lin.src) :
       lres' = InnodbDecompressPage(lin.src, lin.size, lin.outputSize, low)
  /\ lpc' = "done"
  /\ UNCHANGED lin
  /\ UNCHANGED <<wvars, fvars, cvars, rvars, zvars, tvars, gvars>>

NextLib == LibCall \/ LibDecompressPage

SpecLib == InitLib /\ [][NextLib]_vars

\* ------------------------------------------------ schema state machine
MaxCalls == 3

\* the columns a caller passes: three names, a fixed-width and a nullable
\* variable-length kind, with the Ordinal field unset or set to some value
TabColumns ==
  {[Column(n, k.type, k.length, k.nullable, "") EXCEPT !.Ordinal = o] :
     n \in {"a", "b", "c"},
     k \in {[type |-> "INT", length |-> 0, nullable |-> FALSE],
            [type |-> "VARCHAR", length |-> 10, nullable |-> TRUE]},
     o \in {0, 7}}

\* the key lists handed to SetPrimaryKeys: columns that may exist, a name
\* no column has, and no key at all
TabKeys == {<<"a">>, <<"b">>, <<"a", "b">>, <<"z">>, <<"a", "z">>, <<>>}

InitTab ==
  /\ ttd = NewTableDef
  /\ thist = <<>>
  /\ tkeys = <<>>
  /\ tlast = "none"
  /\ tbefore = NewTableDef
  /\ IdleWalk /\ IdleFil /\ IdleCol /\ IdleRec /\ IdleZip /\ IdleLib /\ IdleGen

\* td.AddColumn(col)
AddColumnCall ==
  /\ Len(thist) + Len(tkeys) < MaxCalls
  /\ \E col \in TabColumns :
       /\ ttd' = AddColumn(ttd, col).td
       /\ thist' = Append(thist, [col |-> col, err |-> AddColumn(ttd, col).err])
  /\ tbefore' = ttd
  /\ tlast' = "AddColumn"
  /\ UNCHANGED tkeys
  /\ UNCHANGED <<wvars, fvars, cvars, rvars, zvars, lvars, gvars>>

\* td.SetPrimaryKeys(keys)
SetPrimaryKeysCall ==
  /\ Len(thist) + Len(tkeys) < MaxCalls
  /\ \E keys \in TabKeys :
       /\ ttd' = SetPrimaryKeys(ttd, keys).td
       /\ tkeys' = Append(tkeys, [keys |-> keys, err |-> SetPrimaryKeys(ttd, keys).err])
  /\ tbefore' = ttd
  /\ tlast' = "SetPrimaryKeys"
  /\ UNCHANGED thist
  /\ UNCHANGED <<wvars, fvars, cvars, rvars, zvars, lvars, gvars>>

NextTab == AddColumnCall \/ SetPrimaryKeysCall

SpecTab == InitTab /\ [][NextTab]_vars

\* the names of the columns of the accepted calls, in call order
AcceptedNames == [k \in 1..Len(SelectSeq(thist, LAMBDA c : c.err = "nil")) |->
                    SelectSeq(thist, LAMBDA c : c.err = "nil")[k].col.Name]

\* C20: after any sequence of AddColumn calls the columns of the descriptor
\* are the columns of the accepted calls in call order, column i (from 0) has
\* ordinal i, no two columns have the same name, and a call rejected as a
\* duplicate left the descriptor as it was.
C20_OrdinalsDenseNamesUnique ==
  /\ Len(ttd.Columns) = Len(AcceptedNames)
  /\ \A i \in 1..Len(ttd.Columns) :
        /\ ttd.Columns[i].Ordinal = i - 1
        /\ ttd.Columns[i].Name = AcceptedNames[i]
  /\ \A i, j \in 1..Len(ttd.Columns) :
        i # j => ttd.Columns[i].Name # ttd.Columns[j].Name
  /\ (tlast = "AddColumn" /\ thist[Len(thist)].err # "nil") =>
        /\ thist[Len(thist)].err = "ColumnExists"
        /\ \E i \in 1..Len(tbefore.Columns) :
              tbefore.Columns[i].Name = thist[Len(thist)].col.Name
        /\ ttd = tbefore

\* C20 witness: a column was added, a second call with its name was rejected,
\* and a third call added a column that came with a preset ordinal of 7.
C20_Witness_RejectedThenAdded ==
  /\ Len(thist) = 3
  /\ thist[1].err = "nil"
  /\ thist[2].err = "ColumnExists"
  /\ thist[3].err = "nil"
  /\ thist[3].col.Ordinal = 7
  /\ Len(ttd.Columns) = 2
  /\ ttd.Columns[2].Ordinal = 1

\* C21: a non-NULL variable-length column's length header is one byte, and
\* two bytes exactly when the column's declared maximum byte width exceeds
\* 255 and the first byte has its high bit set; then the length is
\* ((first & 0x3F) << 8) | second and a set bit 6 is the overflow error;
\* otherwise the length is the first byte.  The next column's length byte is
\* the one that follows.
C21_LengthHeaderWidth ==
  (rpc = "done" /\ rin.kind = "lengths") =>
     LET sl == StoredLength(rin.col, rin.first, 2)
     IN IF sl.overflow
          THEN rres.res = "error" /\ rres.err = "OverflowNotSupported"
          ELSE /\ rres.res = "ok"
               /\ rres.varLengths = <<sl.length, 3>>

\* the entries of a length vector that are not 0
NonZero(v) == SelectSeq(v, LAMBDA x : x # 0)

\* C22: on a leaf record of a table with nullable columns the NULL bitmap is
\* the ceil(n/8) bytes in front of the record header, the i-th nullable column
\* (table order) is NULL iff bit i mod 8 of byte i div 8 is set, a NULL column
\* decodes to null, no data bytes are read for it and no length byte is
\* consumed for it.
C22_NullBitmapDecidesNulls ==
  (/\ rpc = "done"
   /\ rin.kind = "record"
   /\ rin.isLeaf
   /\ HasNullableColumn(rin.td)
   /\ \A i \in 1..Len(rin.td.Columns) :
         rin.td.Columns[i].Type \in UnsupportedTypes => rin.row.nulls[i])
    => /\ rres.res = "ok"
       /\ \A i \in 1..Len(rin.td.Columns) :
             /\ rin.td.Columns[i].Name \in DOMAIN rres.Values
             /\ (rres.Values[rin.td.Columns[i].Name].k = "nil") <=> rin.row.nulls[i]
       /\ \A k \in 1..Len(rres.spans) :
             \A i \in 1..Len(rin.td.Columns) :
                rin.td.Columns[i].Name = rres.spans[k].name => ~rin.row.nulls[i]
       /\ NonZero(rres.varLengths) = NonZero(rin.lengths)

\* C22 witness: of nine nullable columns only the ninth is NULL, which is bit 0
\* of the second bitmap byte, and the record decoded with that column null and
\* the first eight not null.
C22_Witness_NinthColumnNull ==
  /\ rpc = "done"
  /\ rin.kind = "record"
  /\ Len(rin.td.nullableColumns) = 9
  /\ rin.row.nulls[10]
  /\ \A i \in 1..9 : ~rin.row.nulls[i]
  /\ rres.res = "ok"
  /\ rres.Values["n9"].k = "nil"
  /\ rres.Values["n8"] = IntV(9)

\* C23: the first 5 bytes of a stored DATETIME are one big-endian 40-bit
\* value of 1 sign bit, 17 bits of year * 13 + month, 5 bits of day, 5 of
\* hour, 6 of minute and 6 of second, so parsing the bytes of a date and
\* time gives back its year, month, day, hour, minute and second.
C23_DateTimeBigEndianFields ==
  (cpc = "done" /\ cin.kind = "datetime")
     => /\ cres.err = "nil"
        /\ cres.n = 5
        /\ cres.val.k = "datetime"
        /\ cres.val.v.f = cin.x

\* C24: parsing a TIMESTAMP column of fractional precision p consumes
\* exactly 4 + ceil(p / 2) bytes, so that the next column starts after the
\* fractional tail.
C24_TimestampConsumesFraction ==
  (cpc = "done" /\ cin.kind = "timestamp")
     => /\ cres.err = "nil"
        /\ cres.n = 4 + (cin.col.Precision + 1) \div 2

\* C25: for every accepted INDEX page with n = num_dir_slots, ParseIndexPage
\* returns exactly n slots and slots[j] is the big-endian 16-bit value at
\* 16384 - 8 - 2 * (j + 1), so slots[0] is the physically last entry and
\* slots[n - 1] the one at 16384 - 8 - 2n; every slot is read from the page.
C25_DirSlotsReadFromPageTail ==
  idx.ok =>
     LET n == idx.Hdr.NumDirSlots
         At(j) == PageSize - FilTrailerSize - PageDirSlotSize * (j + 1)
     IN /\ Len(idx.DirSlots) = n
        /\ \A j \in 0..(n - 1) :
              /\ 0 <= At(j) /\ At(j) + 2 <= page.len
              /\ idx.DirSlots[j + 1] = ByteAt(page, At(j)) * 256 + ByteAt(page, At(j) + 1)

\* C26: for every physical size P of 1024, 2048, 4096, 8192 and 16384 the
\* ssize derived from P for the decompression routine satisfies
\* P = 1 << (10 + ssize): the shim's derivation does for each of the five
\* sizes, and so does the ssize a call of innodb_decompress_page puts in the
\* descriptor it hands to page_zip_decompress_low.
C26_SsizeIsLog2Minus10 ==
  /\ \A P \in {1024, 2048, 4096, 8192, 16384} : Pow2(10 + ZipShiftFromBytes(P)) = P
  /\ (lpc = "done" /\ lres.derived) => Pow2(10 + lres.ssize) = lin.size

\* C27: ParseRecord decodes every non-NULL variable-length column with the
\* length the header pass read for that same column, whichever
\* variable-length columns are NULL and wherever the primary-key columns sit
\* among the variable-length columns of the table.
C27_DecodedWithOwnLength ==
  (rpc = "done" /\ rin.kind = "record")
     => \A k \in 1..Len(rres.spans) :
           \A i \in 1..Len(rin.td.Columns) :
              (rin.td.Columns[i].Name = rres.spans[k].name
               /\ IsVariableLength(rin.td.Columns[i]))
                 => \E j \in 1..Len(rres.read) :
                       /\ rres.read[j].name = rres.spans[k].name
                       /\ rres.read[j].length = rres.spans[k].varLen

\* C28: for every supported column descriptor (any type, unsigned flag,
\* precision and character set) and every input on which Parse succeeds,
\* the byte count Skip returns for the column equals the bytesRead Parse
\* returned.
C28_SkipEqualsParse ==
  (cpc = "skipped" /\ cres.err = "nil") => (cskip.err = "nil" /\ cskip.n = cres.n)

\* C29: after any sequence of AddColumn and SetPrimaryKeys calls, successful
\* or failing, a column has IsPrimaryKey set exactly when it is one of
\* PrimaryKeyColumns(), HasPrimaryKey() is true exactly when
\* PrimaryKeyColumns() is not empty, and a SetPrimaryKeys call that returned
\* an error left the previous primary key in place.
C29_PrimaryKeyViewsAgree ==
  /\ \A i \in 1..Len(ttd.Columns) :
        ttd.Columns[i].IsPrimaryKey
          <=> \E k \in 1..Len(ttd.primaryKeyColumns) : ttd.primaryKeyColumns[k] = i
  /\ HasPrimaryKey(ttd) <=> ttd.primaryKeyColumns # <<>>
  /\ (tlast = "SetPrimaryKeys" /\ tkeys[Len(tkeys)].err # "nil") =>
        /\ ttd.PrimaryKeys = tbefore.PrimaryKeys
        /\ ttd.primaryKeyColumns = tbefore.primaryKeyColumns
        /\ \A i \in 1..Len(ttd.Columns) :
              ttd.Columns[i].IsPrimaryKey = tbefore.Columns[i].IsPrimaryKey

\* C30: for every GenericRecord r, one whose Values map has not been
\* created included, r.GetValue(name) right after r.SetValue(name, v)
\* returns (v, true).
C30_GetAfterSet ==
  (gpc = "got" /\ gsets > 0 /\ gget.name = glast.name)
     => (gget.exists /\ gget.value = glast.value)

====
